---- MODULE Spec2Model ----
(***************************************************************************)
(* PixelPad NoteManager (src/pixelpad/note_manager.py) as a state machine. *)
(*                                                                         *)
(* Strings are sequences of one-character strings, so that str.startswith, *)
(* str.lstrip, Path.suffix and the newline translation of text-mode I/O    *)
(* are computed character by character.  A path is a sequence of names     *)
(* (components); <<>> is the filesystem root "/".  The model filesystem    *)
(* has no symbolic links, so Path.resolve() only normalises "." and "..".  *)
(***************************************************************************)
EXTENDS Integers, Sequences, FiniteSets, TLC

VARIABLES
    dirs,             \* disk: the set of paths that are directories
    files,            \* disk: path of a regular file -> its stored characters
    metaFile,         \* disk: repository path -> its colors.json document
    configFile,       \* disk: config.ini (repository_path and theme)
    repository_path,  \* NoteManager._repository_path
    preferred_theme,  \* NoteManager._preferred_theme
    metadata,         \* NoteManager._metadata
    loaded_for,       \* NoteManager._metadata_loaded_for
    last,             \* the call just made: its arguments and its outcome
    steps             \* number of calls made so far

vars == <<dirs, files, metaFile, configFile, repository_path, preferred_theme,
          metadata, loaded_for, last, steps>>

\* ------------------------------------------------------------------------
\* Bounds

MaxSteps == 3

\* ------------------------------------------------------------------------
\* Characters, names and Python's None

SLASH == "/"
DOT == <<".">>
DOTDOT == <<".", ".">>
LF == "\n"
CR == "\r"

NoPath == << <<"<None>">> >>
NoText == <<"<None>">>
NoColor == <<"<None>">>
EmptyMap == [k \in {} |-> NoColor]

\* a JSON value that is not a string (a number, a list, null)
NotAString == <<"<number>">>

\* ASCII order of the characters that occur in names, for str comparison.
CharOrder == <<" ", "#", ".", "/", "1", "2", "A", "B", "C", "D", "M", "T", "X", "Z",
               "a", "b", "c", "d", "m", "n", "p", "r", "t", "x", "y">>

CharRank(c) == IF \E i \in 1..Len(CharOrder) : CharOrder[i] = c
               THEN CHOOSE i \in 1..Len(CharOrder) : CharOrder[i] = c
               ELSE 0

RECURSIVE StrLess(_, _)
StrLess(a, b) ==
    IF b = <<>> THEN FALSE
    ELSE IF a = <<>> THEN TRUE
    ELSE IF Head(a) = Head(b) THEN StrLess(Tail(a), Tail(b))
    ELSE CharRank(Head(a)) < CharRank(Head(b))

LowerChar(c) ==
    CASE c = "A" -> "a" [] c = "B" -> "b" [] c = "C" -> "c" [] c = "D" -> "d"
      [] c = "G" -> "g" [] c = "H" -> "h" [] c = "I" -> "i" [] c = "K" -> "k"
      [] c = "L" -> "l" [] c = "M" -> "m" [] c = "R" -> "r" [] c = "T" -> "t"
      [] c = "X" -> "x" [] c = "Z" -> "z"
      [] OTHER -> c

UpperChar(c) ==
    CASE c = "a" -> "A" [] c = "b" -> "B" [] c = "c" -> "C" [] c = "d" -> "D"
      [] c = "e" -> "E" [] c = "f" -> "F"
      [] OTHER -> c

Lower(s) == [i \in 1..Len(s) |-> LowerChar(s[i])]

Upper(s) == [i \in 1..Len(s) |-> UpperChar(s[i])]

StartsWith(s, prefix) ==
    /\ Len(s) >= Len(prefix)
    /\ SubSeq(s, 1, Len(prefix)) = prefix

RECURSIVE LStrip(_, _)
LStrip(s, c) == IF s # <<>> /\ Head(s) = c THEN LStrip(Tail(s), c) ELSE s

RECURSIVE RStrip(_, _)
RStrip(s, c) ==
    IF s # <<>> /\ s[Len(s)] = c THEN RStrip(SubSeq(s, 1, Len(s) - 1), c) ELSE s

Strip(s) == RStrip(LStrip(s, " "), " ")

\* ------------------------------------------------------------------------
\* pathlib

\* A path argument as the caller passes it: absolute or relative, with
\* its components as written ("." and ".." included).
AbsArg(parts) == [abs |-> TRUE, parts |-> parts]

RelArg(parts) == [abs |-> FALSE, parts |-> parts]

NoArg == [abs |-> FALSE, parts |-> NoPath]

RECURSIVE ResolveParts(_, _)
ResolveParts(stack, rest) ==
    IF rest = <<>> THEN stack
    ELSE LET c == Head(rest) IN
         IF c = DOTDOT
         THEN ResolveParts(IF stack = <<>> THEN <<>>
                           ELSE SubSeq(stack, 1, Len(stack) - 1), Tail(rest))
         ELSE IF c = DOT \/ c = <<>>
         THEN ResolveParts(stack, Tail(rest))
         ELSE ResolveParts(Append(stack, c), Tail(rest))

\* (repo / p).expanduser().resolve(), or p.resolve() for an absolute p
ResolveUnder(repo, arg) ==
    IF arg.abs THEN ResolveParts(<<>>, arg.parts)
    ELSE ResolveParts(<<>>, repo \o arg.parts)

Parent(p) == IF p = <<>> THEN <<>> ELSE SubSeq(p, 1, Len(p) - 1)

\* Path.name: the final component as written, "" for "." and for "/"
PathName(parts) ==
    LET kept == SelectSeq(parts, LAMBDA c : c # DOT /\ c # <<>>)
    IN  IF kept = <<>> THEN <<>> ELSE kept[Len(kept)]

RECURSIVE JoinPosix(_)
JoinPosix(parts) ==
    IF parts = <<>> THEN <<>>
    ELSE IF Len(parts) = 1 THEN parts[1]
    ELSE parts[1] \o <<SLASH>> \o JoinPosix(Tail(parts))

\* path.relative_to(base).as_posix()
RelativePosix(path, base) ==
    LET rel == SubSeq(path, Len(base) + 1, Len(path))
    IN  IF rel = <<>> THEN DOT ELSE JoinPosix(rel)

\* str(path) of an absolute path
AbsPosix(path) == IF path = <<>> THEN <<SLASH>> ELSE <<SLASH>> \o JoinPosix(path)

\* A containment test on the text of the paths (str.startswith)
IsRelativeToByStringPrefix(path, base) == StartsWith(AbsPosix(path), AbsPosix(base))

\* PurePath.relative_to succeeds: component-wise containment
IsRelativeTo(path, base) ==
    /\ Len(path) >= Len(base)
    /\ SubSeq(path, 1, Len(base)) = base

RECURSIVE SplitPosix(_, _)
SplitPosix(s, cur) ==
    IF s = <<>> THEN <<cur>>
    ELSE IF Head(s) = SLASH THEN <<cur>> \o SplitPosix(Tail(s), <<>>)
    ELSE SplitPosix(Tail(s), Append(cur, Head(s)))

\* (repo / Path(rel_path)).resolve() for a key of the color maps
KeyPath(repo, key) ==
    IF key # <<>> /\ Head(key) = SLASH
    THEN ResolveParts(<<>>, SplitPosix(key, <<>>))
    ELSE ResolveParts(<<>>, repo \o SplitPosix(key, <<>>))

DotIndex(name) ==
    IF \E i \in 1..Len(name) : name[i] = "."
    THEN CHOOSE i \in 1..Len(name) :
            name[i] = "." /\ \A j \in (i + 1)..Len(name) : name[j] # "."
    ELSE 0

\* PurePath.suffix of a name
Suffix(name) ==
    LET i == DotIndex(name)
    IN  IF 1 < i /\ i < Len(name) THEN SubSeq(name, i, Len(name)) ELSE <<>>

\* PurePath.stem of a name
Stem(name) ==
    LET i == DotIndex(name)
    IN  IF 1 < i /\ i < Len(name) THEN SubSeq(name, 1, i - 1) ELSE name

\* PurePath.with_suffix on the final component
WithSuffix(path, ext) ==
    LET name == path[Len(path)]
    IN  Append(Parent(path), Stem(name) \o ext)

SUPPORTED_EXTENSIONS == { <<".", "t", "x", "t">>, <<".", "m", "d">> }

\* ------------------------------------------------------------------------
\* Text-mode file I/O (POSIX host: os.linesep is "\n")

\* Path.write_text: what reaches the disk (newline=None maps "\n" to os.linesep)
WriteText(content) == content

\* Path.read_text: universal newlines, "\r\n" and a lone "\r" are read as "\n"
RECURSIVE ReadText(_)
ReadText(stored) ==
    IF stored = <<>> THEN <<>>
    ELSE IF Head(stored) = CR
    THEN IF Len(stored) >= 2 /\ stored[2] = LF
         THEN <<LF>> \o ReadText(Tail(Tail(stored)))
         ELSE <<LF>> \o ReadText(Tail(stored))
    ELSE <<Head(stored)>> \o ReadText(Tail(stored))

\* ------------------------------------------------------------------------
\* The disk

Put(f, k, v) == [x \in DOMAIN f \cup {k} |-> IF x = k THEN v ELSE f[x]]

Drop(f, K) == [x \in DOMAIN f \ K |-> f[x]]

Exists(s, p) == p \in s.dirs \/ p \in DOMAIN s.files

IsDir(s, p) == p \in s.dirs

Entries(s) == s.dirs \cup DOMAIN s.files

\* On disk, q is the entry p or lies somewhere below it
Under(q, p) ==
    /\ Len(q) >= Len(p)
    /\ SubSeq(q, 1, Len(p)) = p

\* Path.iterdir()
Children(s, p) == {q \in Entries(s) : Len(q) = Len(p) + 1 /\ Under(q, p)}

Prefixes(p) == {SubSeq(p, 1, i) : i \in 0..Len(p)}

\* Path.mkdir(parents=True, exist_ok=True) succeeds unless a component is a file
CanMkdirs(s, p) == \A q \in Prefixes(p) : q \notin DOMAIN s.files

Mkdirs(s, p) == [s EXCEPT !.dirs = @ \cup Prefixes(p)]

\* Path.rename of a directory: the whole subtree moves
RenameTree(s, old, new) ==
    LET moved(q) == new \o SubSeq(q, Len(old) + 1, Len(q))
        inside(q) == Under(q, old)
        keptFiles == {q \in DOMAIN s.files : ~inside(q)}
        movedFiles == {q \in DOMAIN s.files : inside(q)}
    IN  [s EXCEPT
           !.dirs = {q \in @ : ~inside(q)} \cup {moved(q) : q \in {d \in @ : inside(d)}},
           !.files = [q \in keptFiles \cup {moved(f) : f \in movedFiles} |->
                        IF \E f \in movedFiles : moved(f) = q
                        THEN s.files[CHOOSE f \in movedFiles : moved(f) = q]
                        ELSE s.files[q]]]

\* ------------------------------------------------------------------------
\* NoteManager: repository and color metadata
\*
\* An operation is split where it has computed a state that the rest of it
\* reads many times: the second half takes that state as a parameter.

Result(s, out) == [s |-> s, out |-> out, path |-> NoPath, text |-> NoText]

ResultPath(s, path) == [s |-> s, out |-> "ok", path |-> path, text |-> NoText]

ResultText(s, text) == [s |-> s, out |-> "ok", path |-> NoPath, text |-> text]

\* the call returns path unless the step r raised
ReturnPath(r, path) == IF r.out # "ok" THEN r ELSE ResultPath(r.s, path)

\* _ensure_repository checking only that a path is configured
RepositoryPathSet(s) == s.repository_path # NoPath

RepositoryOk(s) ==
    /\ s.repository_path # NoPath
    /\ Exists(s, s.repository_path)
    /\ IsDir(s, s.repository_path)

HexDigits == {"0", "1", "2", "3", "4", "5", "6", "7", "8", "9",
              "a", "b", "c", "d", "e", "f", "A", "B", "C", "D", "E", "F"}

\* re.fullmatch(r"#?[0-9a-fA-F]{6}", candidate), then "#" + digits, upper case
NormalizeHex(candidate, digits) ==
    IF candidate = <<>> THEN NoColor
    ELSE IF ~(Len(digits) = 6 /\ \A i \in 1..6 : digits[i] \in HexDigits) THEN NoColor
    ELSE Upper(<<"#">> \o digits)

StripHash(candidate) ==
    IF candidate # <<>> /\ Head(candidate) = "#" THEN Tail(candidate) ELSE candidate

\* _sanitize_color returning the candidate as typed, without upper()
SanitizeColorKeepingCase(color) ==
    IF color \in {NoColor, NotAString} THEN NoColor
    ELSE IF NormalizeHex(Strip(color), StripHash(Strip(color))) = NoColor THEN NoColor
    ELSE <<"#">> \o StripHash(Strip(color))

SanitizeColor(color) ==
    IF color \in {NoColor, NotAString} THEN NoColor
    ELSE NormalizeHex(Strip(color), StripHash(Strip(color)))

SaveMetadata(s) ==
    [s EXCEPT !.metaFile = Put(@, s.repository_path,
                               [notes |-> s.metadata.notes,
                                notebooks |-> s.metadata.notebooks])]

\* the keys of a color map whose path is missing on disk
MissingKeys(s, mapping) ==
    {k \in DOMAIN mapping : ~Exists(s, KeyPath(s.repository_path, k))}

\* store the new color maps and write the metadata file if they changed
SaveIfChanged(s, maps) ==
    IF maps # s.metadata THEN SaveMetadata([s EXCEPT !.metadata = maps]) ELSE s

\* the pruning dropping the entries in memory without writing the file
PruneMissingMetadataUnsaved(s) ==
    IF s.repository_path = NoPath THEN s
    ELSE [s EXCEPT !.metadata =
             [notes |-> Drop(s.metadata.notes, MissingKeys(s, s.metadata.notes)),
              notebooks |-> Drop(s.metadata.notebooks,
                                 MissingKeys(s, s.metadata.notebooks))]]

PruneMissingMetadata(s) ==
    IF s.repository_path = NoPath THEN s
    ELSE SaveIfChanged(s, [notes |-> Drop(s.metadata.notes, MissingKeys(s, s.metadata.notes)),
                           notebooks |-> Drop(s.metadata.notebooks,
                                              MissingKeys(s, s.metadata.notebooks))])

SanitizeSection(section) ==
    [k \in {e \in DOMAIN section : SanitizeColor(section[e]) # NoColor} |->
        SanitizeColor(section[k])]

\* The contents of a metadata file: a record of the sections notes and
\* notebooks when it is a JSON object whose sections are objects, as the
\* manager writes it; a file that is something else has a field form as well:
\*   "undecodable"  bytes that are not UTF-8 text
\*   "malformed"    text that is not JSON
\*   "array"        a JSON document that is not an object
\*   "notes_array"  a JSON object whose section notes is not an object
FormOf(contents) == IF "form" \in DOMAIN contents THEN contents.form ELSE "object"

\* the maps _ensure_metadata_loaded builds from what json.loads returned
SanitizeDocument(contents) ==
    IF FormOf(contents) \in {"malformed", "array"}
    THEN [notes |-> EmptyMap, notebooks |-> EmptyMap]
    ELSE [notes |-> IF FormOf(contents) = "notes_array" THEN EmptyMap
                    ELSE SanitizeSection(contents.notes),
          notebooks |-> SanitizeSection(contents.notebooks)]

\* the maps read from the repository's metadata file, empty when it is absent
ReadMetadataFile(s) ==
    IF s.repository_path \in DOMAIN s.metaFile
    THEN SanitizeDocument(s.metaFile[s.repository_path])
    ELSE [notes |-> EmptyMap, notebooks |-> EmptyMap]

LEGACY_METADATA_DIR_NAME == <<".", "p", "i", "x", "e", "l", "p", "a", "d">>

COLOR_METADATA_FILENAME == <<"c", "o", "l", "o", "r", "s", ".", "j", "s", "o", "n">>

LegacyMetadataDir(repo) == Append(repo, LEGACY_METADATA_DIR_NAME)

\* _legacy_metadata_file
LegacyMetadataFile(repo) == Append(LegacyMetadataDir(repo), COLOR_METADATA_FILENAME)

\* the repository has no canonical metadata file and has a legacy one
LegacyToMigrate(s) ==
    /\ s.repository_path \notin DOMAIN s.metaFile
    /\ LegacyMetadataFile(s.repository_path) \in DOMAIN s.files

\* the legacy directory removed if the unlink has left it empty
WithoutEmptyLegacyDir(s, legacy_dir) ==
    IF legacy_dir \in s.dirs /\ (\A e \in Entries(s) : Under(e, legacy_dir) => e = legacy_dir)
    THEN [s EXCEPT !.dirs = @ \ {legacy_dir}]
    ELSE s

\* the migration: the legacy file's contents written to the canonical file,
\* the legacy file unlinked, its directory removed if that leaves it empty
MigrateLegacy(s) ==
    IF LegacyToMigrate(s)
    THEN WithoutEmptyLegacyDir(
             [s EXCEPT !.metaFile = Put(@, s.repository_path,
                                        s.files[LegacyMetadataFile(s.repository_path)]),
                       !.files = Drop(@, {LegacyMetadataFile(s.repository_path)})],
             LegacyMetadataDir(s.repository_path))
    ELSE s

\* a load is due and read_text raises UnicodeDecodeError, on the legacy file
\* or on the canonical one: neither except clause catches it
LoadRaises(s) ==
    /\ ~(s.loaded_for # NoPath /\ s.loaded_for = s.repository_path)
    /\ IF s.repository_path \in DOMAIN s.metaFile
       THEN FormOf(s.metaFile[s.repository_path]) = "undecodable"
       ELSE /\ LegacyMetadataFile(s.repository_path) \in DOMAIN s.files
            /\ FormOf(s.files[LegacyMetadataFile(s.repository_path)]) = "undecodable"

\* _ensure_metadata_loaded from the read of the canonical file on
LoadMetadataFile(s) ==
    PruneMissingMetadata([s EXCEPT !.metadata = ReadMetadataFile(s),
                                   !.loaded_for = s.repository_path])

\* Called only where the repository has just been validated. Where the
\* load raises the manager is left as it was.
EnsureMetadataLoaded(s) ==
    IF s.loaded_for # NoPath /\ s.loaded_for = s.repository_path THEN s
    ELSE IF LoadRaises(s) THEN s
    ELSE LoadMetadataFile(MigrateLegacy(s))

\* _set_color_entry after _ensure_metadata_loaded and _ensure_relative_key
SetColorLoaded(s, key, relative, normalized, color) ==
    IF color = NoColor
    THEN IF relative \in DOMAIN s.metadata[key]
         THEN Result(SaveMetadata([s EXCEPT !.metadata[key] = Drop(@, {relative})]), "ok")
         ELSE Result(s, "ok")
    ELSE IF normalized = NoColor THEN Result(s, "InvalidColor")
    ELSE IF relative \in DOMAIN s.metadata[key] /\ s.metadata[key][relative] = normalized
    THEN Result(s, "ok")
    ELSE Result(SaveMetadata([s EXCEPT !.metadata[key] = Put(@, relative, normalized)]), "ok")

SetColorEntry(s, key, target_path, color) ==
    IF ~IsRelativeTo(target_path, s.repository_path)
    THEN Result(EnsureMetadataLoaded(s), "OutsideRepository")
    ELSE SetColorLoaded(EnsureMetadataLoaded(s), key,
                        RelativePosix(target_path, s.repository_path),
                        SanitizeColor(color), color)

\* entry.startswith(relative), without the "/" that ends the component
InSubtreeByTextPrefix(entry, relative) == StartsWith(entry, relative)

\* entry == relative or entry.startswith(relative + "/")
InSubtree(entry, relative) ==
    entry = relative \/ StartsWith(entry, relative \o <<SLASH>>)

\* _remove_color_subtree after _ensure_metadata_loaded
RemoveSubtreeLoaded(s, key, doomed) ==
    IF doomed # {} THEN SaveMetadata([s EXCEPT !.metadata[key] = Drop(@, doomed)]) ELSE s

SubtreeKeys(s, key, relative) == {e \in DOMAIN s.metadata[key] : InSubtree(e, relative)}

RemoveColorSubtree(s, key, target_path) ==
    RemoveSubtreeLoaded(EnsureMetadataLoaded(s), key,
                        SubtreeKeys(EnsureMetadataLoaded(s), key,
                                    RelativePosix(target_path, s.repository_path)))

\* every entry of the subtree reassigned to new_rel itself
ReplacementWithoutSuffix(entry, old_rel, new_rel) == new_rel

Replacement(entry, old_rel, new_rel) ==
    IF LStrip(SubSeq(entry, Len(old_rel) + 1, Len(entry)), SLASH) = <<>> THEN new_rel
    ELSE new_rel \o <<SLASH>> \o LStrip(SubSeq(entry, Len(old_rel) + 1, Len(entry)), SLASH)

\* mapping.update(updates) on the map without the popped entries
MovedMap(mapping, moving, old_rel, new_rel) ==
    [k \in (DOMAIN mapping \ moving) \cup {Replacement(e, old_rel, new_rel) : e \in moving} |->
        IF \E e \in moving : Replacement(e, old_rel, new_rel) = k
        THEN mapping[CHOOSE e \in moving : Replacement(e, old_rel, new_rel) = k]
        ELSE mapping[k]]

\* _reassign_color_subtree after _ensure_metadata_loaded
ReassignLoaded(s, key, old_rel, new_rel) ==
    IF old_rel = new_rel THEN s
    ELSE IF SubtreeKeys(s, key, old_rel) # {}
    THEN SaveMetadata([s EXCEPT !.metadata[key] =
                          MovedMap(@, SubtreeKeys(s, key, old_rel), old_rel, new_rel)])
    ELSE s

ReassignColorSubtree(s, key, old_path, new_path) ==
    ReassignLoaded(EnsureMetadataLoaded(s), key,
                   RelativePosix(old_path, s.repository_path),
                   RelativePosix(new_path, s.repository_path))

RemoveNotebookTreeColors(s, notebook_path) ==
    RemoveColorSubtree(RemoveColorSubtree(s, "notebooks", notebook_path), "notes", notebook_path)

ReassignNotebookTreeColors(s, old_path, new_path) ==
    ReassignColorSubtree(ReassignColorSubtree(s, "notebooks", old_path, new_path),
                         "notes", old_path, new_path)

\* ------------------------------------------------------------------------
\* NoteManager: path sandboxing

NameOf(p) == IF p = <<>> THEN <<>> ELSE p[Len(p)]

\* _ensure_supported_extension letting every suffix pass
SupportedExtensionUnchecked(p) == TRUE

SupportedExtension(p) == Lower(Suffix(NameOf(p))) \in SUPPORTED_EXTENSIONS

\* _resolve_note_path trusting a configured path without looking at the disk
NotePathOutUnvalidated(s, note_path) ==
    IF s.repository_path = NoPath THEN "NotConfigured"
    ELSE IF ~IsRelativeTo(note_path, s.repository_path) THEN "OutsideRepository"
    ELSE IF ~SupportedExtension(note_path) THEN "UnsupportedExtension"
    ELSE "ok"

\* _resolve_note_path on the resolved path: the exception it raises, "ok"
\* when it returns
NotePathOut(s, note_path) ==
    IF ~RepositoryOk(s) THEN "NotConfigured"
    ELSE IF ~IsRelativeTo(note_path, s.repository_path) THEN "OutsideRepository"
    ELSE IF ~SupportedExtension(note_path) THEN "UnsupportedExtension"
    ELSE "ok"

ResolveNotePathOut(s, note) == NotePathOut(s, ResolveUnder(s.repository_path, note))

\* _resolve_directory_path on the resolved path
DirectoryPathOut(s, directory_path) ==
    IF ~RepositoryOk(s) THEN "NotConfigured"
    ELSE IF ~IsRelativeTo(directory_path, s.repository_path) THEN "OutsideRepository"
    ELSE IF Exists(s, directory_path) /\ ~IsDir(s, directory_path) THEN "NotADirectory"
    ELSE "ok"

ResolveDirectoryPathOut(s, directory) ==
    DirectoryPathOut(s, ResolveUnder(s.repository_path, directory))

\* _resolve_directory on the resolved path: mkdir -p once the checks pass
MakeDirectory(s, directory_path, out) ==
    IF out # "ok" THEN Result(s, out)
    ELSE IF ~CanMkdirs(s, directory_path) THEN Result(s, "NotADirectory")
    ELSE ResultPath(Mkdirs(s, directory_path), directory_path)

\* _resolve_directory: the result carries the disk after the mkdir and the
\* directory in .path
ResolveDirectory(s, directory) ==
    IF ~RepositoryOk(s) THEN Result(s, "NotConfigured")
    ELSE IF directory = NoArg THEN ResultPath(s, s.repository_path)
    ELSE MakeDirectory(s, ResolveUnder(s.repository_path, directory),
                       ResolveDirectoryPathOut(s, directory))

\* ------------------------------------------------------------------------
\* NoteManager: notes

LoadNoteAt(s, note_path, out) ==
    IF out # "ok" THEN Result(s, out)
    ELSE IF ~Exists(s, note_path) THEN Result(s, "FileNotFound")
    ELSE IF IsDir(s, note_path) THEN Result(s, "IsADirectory")
    ELSE ResultText(s, ReadText(s.files[note_path]))

LoadNote(s, note) ==
    LoadNoteAt(s, ResolveUnder(s.repository_path, note), ResolveNotePathOut(s, note))

SaveNoteAt(s, note_path, out, content) ==
    IF out # "ok" THEN Result(s, out)
    ELSE IF ~CanMkdirs(s, Parent(note_path)) THEN Result(s, "NotADirectory")
    ELSE IF IsDir(s, note_path) THEN Result(Mkdirs(s, Parent(note_path)), "IsADirectory")
    ELSE ResultPath([s EXCEPT !.dirs = @ \cup Prefixes(Parent(note_path)),
                              !.files = Put(@, note_path, WriteText(content))],
                    note_path)

SaveNote(s, note, content) ==
    SaveNoteAt(s, ResolveUnder(s.repository_path, note), ResolveNotePathOut(s, note), content)

\* Path.touch(exist_ok=True) on a path whose parent exists
Touch(s, p) == IF Exists(s, p) THEN s ELSE [s EXCEPT !.files = Put(@, p, <<>>)]

\* create_note: the extension of the new note
NoteExtension(candidate, extension) ==
    IF Suffix(candidate) # <<>> THEN Lower(Suffix(candidate))
    ELSE IF StartsWith(Lower(extension), <<".">>) THEN Lower(extension)
    ELSE <<".">> \o Lower(extension)

\* create_note: Path(base_name).name
SafeName(candidate) ==
    PathName(<<IF Suffix(candidate) # <<>> THEN Stem(candidate) ELSE candidate>>)

\* create_note from the existence check on, note_path being computed
CreateNoteAt(s, note_path, overwrite, color) ==
    IF ~IsRelativeTo(note_path, s.repository_path) THEN Result(s, "OutsideRepository")
    ELSE IF Exists(s, note_path) /\ ~overwrite THEN Result(s, "FileExists")
    ELSE IF ~CanMkdirs(s, Parent(note_path)) THEN Result(s, "NotADirectory")
    ELSE IF color # NoColor \/ overwrite
    THEN ReturnPath(SetColorEntry(Touch(Mkdirs(s, Parent(note_path)), note_path),
                                  "notes", note_path, color), note_path)
    ELSE ResultPath(Touch(Mkdirs(s, Parent(note_path)), note_path), note_path)

\* create_note once _resolve_directory has returned or raised
CreateNoteIn(rd, ext, safe_name, overwrite, color) ==
    IF rd.out # "ok" THEN Result(rd.s, rd.out)
    ELSE IF ext \notin SUPPORTED_EXTENSIONS THEN Result(rd.s, "UnsupportedExtension")
    ELSE IF safe_name = <<>> THEN Result(rd.s, "EmptyName")
    ELSE CreateNoteAt(rd.s, ResolveParts(<<>>, WithSuffix(Append(rd.path, safe_name), ext)),
                      overwrite, color)

CreateNote(s, filename, extension, directory, overwrite, color) ==
    CreateNoteIn(ResolveDirectory(s, directory),
                 NoteExtension(PathName(filename), extension),
                 SafeName(PathName(filename)), overwrite, color)

\* a rename that copies the file and leaves the source in place
RenamePathByCopy(s, old, new) == [s EXCEPT !.files = Put(@, new, s.files[old])]

\* Path.rename(target) of a file or of a directory tree; target is absent
RenamePath(s, old, new) ==
    IF IsDir(s, old) THEN RenameTree(s, old, new)
    ELSE [s EXCEPT !.files = Put(Drop(@, {old}), new, s.files[old])]

\* target.unlink() when overwriting
Unlink(s, p) == [s EXCEPT !.files = Drop(@, {p})]

\* rename_note from target.parent.mkdir on; s is the disk after that mkdir
RenameNoteTo(s, note_path, target, overwrite) ==
    IF Exists(s, target) /\ ~overwrite THEN Result(s, "FileExists")
    ELSE IF IsDir(s, target) THEN Result(s, "IsADirectory")
    ELSE IF IsDir(s, note_path) /\ Under(target, note_path) THEN Result(s, "InvalidArgument")
    ELSE ResultPath(ReassignColorSubtree(RenamePath(Unlink(s, target), note_path, target),
                                         "notes", note_path, target),
                    target)

\* rename_note: the destination with the source's suffix when it has none
WithInheritedSuffix(target, note_path) ==
    IF Suffix(NameOf(target)) = <<>> THEN WithSuffix(target, Suffix(NameOf(note_path)))
    ELSE target

\* rename_note once the source and the destination are resolved
RenameNoteAt(s, note_path, out, resolved, target, overwrite) ==
    IF out # "ok" THEN Result(s, out)
    ELSE IF ~Exists(s, note_path) THEN Result(s, "FileNotFound")
    ELSE IF ~IsRelativeTo(resolved, s.repository_path) THEN Result(s, "OutsideRepository")
    ELSE IF IsDir(s, resolved) THEN Result(s, "IsADirectory")
    ELSE IF ~SupportedExtension(target) THEN Result(s, "UnsupportedExtension")
    ELSE IF target = note_path THEN ResultPath(s, target)
    ELSE IF ~CanMkdirs(s, Parent(target)) THEN Result(s, "NotADirectory")
    ELSE RenameNoteTo(Mkdirs(s, Parent(target)), note_path, target, overwrite)

RenameNote(s, note, new_name, overwrite) ==
    RenameNoteAt(s, ResolveUnder(s.repository_path, note), ResolveNotePathOut(s, note),
                 ResolveUnder(s.repository_path, new_name),
                 WithInheritedSuffix(ResolveUnder(s.repository_path, new_name),
                                     ResolveUnder(s.repository_path, note)),
                 overwrite)

\* the directory p removed if it is empty and not the repository root
WithoutEmpty(s, p) ==
    IF p # s.repository_path /\ (\A e \in Entries(s) : Under(e, p) => e = p)
    THEN [s EXCEPT !.dirs = @ \ {p}]
    ELSE s

\* delete_note removing the parent directory it leaves empty
DeleteNoteAtPruningParent(s, note_path, out) ==
    IF out # "ok" THEN Result(s, out)
    ELSE IF ~Exists(s, note_path) THEN Result(s, "FileNotFound")
    ELSE IF IsDir(s, note_path) THEN Result(s, "IsADirectory")
    ELSE Result(WithoutEmpty(
                    SetColorEntry(Unlink(s, note_path), "notes", note_path, NoColor).s,
                    Parent(note_path)),
                "ok")

DeleteNoteAt(s, note_path, out) ==
    IF out # "ok" THEN Result(s, out)
    ELSE IF ~Exists(s, note_path) THEN Result(s, "FileNotFound")
    ELSE IF IsDir(s, note_path) THEN Result(s, "IsADirectory")
    ELSE Result(SetColorEntry(Unlink(s, note_path), "notes", note_path, NoColor).s, "ok")

DeleteNote(s, note) ==
    DeleteNoteAt(s, ResolveUnder(s.repository_path, note), ResolveNotePathOut(s, note))

\* ------------------------------------------------------------------------
\* NoteManager: notebooks

\* create_notebook from the existence check on, notebook_path being computed
CreateNotebookAt(s, notebook_path, exist_ok, color) ==
    IF ~IsRelativeTo(notebook_path, s.repository_path) THEN Result(s, "OutsideRepository")
    ELSE IF Exists(s, notebook_path) /\ ~IsDir(s, notebook_path) THEN Result(s, "FileExists")
    ELSE IF Exists(s, notebook_path) /\ ~exist_ok THEN Result(s, "FileExists")
    ELSE IF ~CanMkdirs(s, notebook_path) THEN Result(s, "NotADirectory")
    ELSE IF color = NoColor THEN ResultPath(Mkdirs(s, notebook_path), notebook_path)
    ELSE ReturnPath(SetColorEntry(Mkdirs(s, notebook_path), "notebooks", notebook_path, color),
                    notebook_path)

\* create_notebook once _resolve_directory has returned or raised
CreateNotebookIn(rd, folder_name, exist_ok, color) ==
    IF rd.out # "ok" THEN Result(rd.s, rd.out)
    ELSE IF folder_name = <<>> THEN Result(rd.s, "EmptyName")
    ELSE CreateNotebookAt(rd.s, ResolveParts(<<>>, Append(rd.path, folder_name)),
                          exist_ok, color)

CreateNotebook(s, name, parent, exist_ok, color) ==
    CreateNotebookIn(ResolveDirectory(s, parent), Strip(PathName(name)), exist_ok, color)

\* rename_notebook validating the new name before it looks at the notebook
RenameNotebookAtNameFirst(s, notebook_path, out, cleaned, target) ==
    IF out # "ok" THEN Result(s, out)
    ELSE IF cleaned = <<>> THEN Result(s, "EmptyName")
    ELSE IF notebook_path = s.repository_path THEN Result(s, "InvalidOperation")
    ELSE IF ~IsRelativeTo(target, s.repository_path) THEN Result(s, "OutsideRepository")
    ELSE IF Exists(s, target) THEN Result(s, "FileExists")
    ELSE IF ~Exists(s, notebook_path) THEN Result(s, "FileNotFound")
    ELSE ResultPath(ReassignNotebookTreeColors(RenameTree(s, notebook_path, target),
                                               notebook_path, target),
                    target)

\* rename_notebook once the notebook and the target are resolved
RenameNotebookAt(s, notebook_path, out, cleaned, target) ==
    IF out # "ok" THEN Result(s, out)
    ELSE IF notebook_path = s.repository_path THEN Result(s, "InvalidOperation")
    ELSE IF cleaned = <<>> THEN Result(s, "EmptyName")
    ELSE IF ~IsRelativeTo(target, s.repository_path) THEN Result(s, "OutsideRepository")
    ELSE IF Exists(s, target) THEN Result(s, "FileExists")
    ELSE IF ~Exists(s, notebook_path) THEN Result(s, "FileNotFound")
    ELSE ResultPath(ReassignNotebookTreeColors(RenameTree(s, notebook_path, target),
                                               notebook_path, target),
                    target)

\* (notebook_path.parent / cleaned).resolve()
SiblingPath(notebook_path, cleaned) ==
    ResolveParts(<<>>, Append(Parent(notebook_path), cleaned))

RenameNotebook(s, notebook, new_name) ==
    RenameNotebookAt(s, ResolveUnder(s.repository_path, notebook),
                     ResolveDirectoryPathOut(s, notebook), Strip(PathName(new_name)),
                     SiblingPath(ResolveUnder(s.repository_path, notebook),
                                 Strip(PathName(new_name))))

\* sorted(contents, reverse=True): siblings compare by their final name
RECURSIVE SortedReverse(_)
SortedReverse(S) ==
    IF S = {} THEN <<>>
    ELSE LET top == CHOOSE x \in S : \A y \in S \ {x} : StrLess(NameOf(y), NameOf(x))
         IN  <<top>> \o SortedReverse(S \ {top})

\* the cleanup loop at the end of delete_notebook
\* the cleanup removing the parent alone when the notebook leaves it empty
PruneEmptyParentOnly(s, parent) ==
    IF parent # s.repository_path /\ Exists(s, parent) /\ Children(s, parent) = {}
    THEN [s EXCEPT !.dirs = @ \ {parent}]
    ELSE s

RECURSIVE PruneEmptyParents(_, _)
PruneEmptyParents(s, parent) ==
    IF parent # s.repository_path /\ Exists(s, parent) /\ Children(s, parent) = {}
    THEN PruneEmptyParents([s EXCEPT !.dirs = @ \ {parent}], Parent(parent))
    ELSE s

Rmdir(s, p) == [s EXCEPT !.dirs = @ \ {p}]

\* delete_notebook after the loop over the children: rmdir, colors, cleanup
RemoveNotebook(emptied, notebook_path) ==
    IF emptied.out # "ok" THEN emptied
    ELSE IF ~Exists(emptied.s, notebook_path) THEN Result(emptied.s, "FileNotFound")
    ELSE IF Children(emptied.s, notebook_path) # {} THEN Result(emptied.s, "NotEmpty")
    ELSE Result(PruneEmptyParents(
                    RemoveNotebookTreeColors(Rmdir(emptied.s, notebook_path), notebook_path),
                    Parent(notebook_path)), "ok")

\* the file branch of the loop: _remove_note_color(child); child.unlink()
UnlinkChild(s, child) ==
    IF ~Exists(s, child) THEN Result(s, "FileNotFound") ELSE Result(Unlink(s, child), "ok")

RECURSIVE DeleteNotebookAt(_, _, _)
RECURSIVE DeleteContents(_, _)
\* the loop over the children of a notebook deleted with recursive=True;
\* done is the outcome of the children handled so far
DeleteContents(done, children) ==
    IF children = <<>> \/ done.out # "ok" THEN done
    ELSE IF IsDir(done.s, Head(children))
    THEN DeleteContents(DeleteNotebookAt(done.s, Head(children), TRUE), Tail(children))
    ELSE DeleteContents(UnlinkChild(SetColorEntry(done.s, "notes", Head(children), NoColor).s,
                                    Head(children)),
                        Tail(children))

\* delete_notebook emptying the notebook whatever the recursive flag says
DeleteNotebookAtIgnoringFlag(s, notebook_path, recursive) ==
    IF DirectoryPathOut(s, notebook_path) # "ok"
    THEN Result(s, DirectoryPathOut(s, notebook_path))
    ELSE IF notebook_path = s.repository_path THEN Result(s, "InvalidOperation")
    ELSE IF ~Exists(s, notebook_path) THEN Result(s, "FileNotFound")
    ELSE RemoveNotebook(DeleteContents(Result(s, "ok"),
                                       SortedReverse(Children(s, notebook_path))),
                        notebook_path)

\* delete_notebook once its argument is resolved (recursive calls pass an
\* absolute child path, which resolves to itself)
DeleteNotebookAt(s, notebook_path, recursive) ==
    IF DirectoryPathOut(s, notebook_path) # "ok"
    THEN Result(s, DirectoryPathOut(s, notebook_path))
    ELSE IF notebook_path = s.repository_path THEN Result(s, "InvalidOperation")
    ELSE IF ~Exists(s, notebook_path) THEN Result(s, "FileNotFound")
    ELSE IF Children(s, notebook_path) # {} /\ ~recursive THEN Result(s, "NotEmpty")
    ELSE IF recursive
    THEN RemoveNotebook(DeleteContents(Result(s, "ok"),
                                       SortedReverse(Children(s, notebook_path))),
                        notebook_path)
    ELSE RemoveNotebook(Result(s, "ok"), notebook_path)

DeleteNotebook(s, notebook, recursive) ==
    IF ~RepositoryOk(s) THEN Result(s, "NotConfigured")
    ELSE DeleteNotebookAt(s, ResolveUnder(s.repository_path, notebook), recursive)

\* NoteManager.move_notebook as section 4.5 describes it: rename semantics
\* with the destination under another parent
MoveNotebookAt(s, notebook_path, out, parent_path, parentOut) ==
    IF out # "ok" THEN Result(s, out)
    ELSE IF parentOut # "ok" THEN Result(s, parentOut)
    ELSE IF notebook_path = s.repository_path THEN Result(s, "InvalidOperation")
    ELSE IF IsRelativeTo(parent_path, notebook_path) THEN Result(s, "InvalidOperation")
    ELSE IF parent_path = Parent(notebook_path) THEN Result(s, "InvalidOperation")
    ELSE IF ~Exists(s, notebook_path) THEN Result(s, "FileNotFound")
    ELSE IF ~Exists(s, parent_path) THEN Result(s, "FileNotFound")
    ELSE IF Exists(s, Append(parent_path, NameOf(notebook_path))) THEN Result(s, "FileExists")
    ELSE ResultPath(ReassignNotebookTreeColors(
                        RenameTree(s, notebook_path, Append(parent_path, NameOf(notebook_path))),
                        notebook_path, Append(parent_path, NameOf(notebook_path))),
                    Append(parent_path, NameOf(notebook_path)))

MoveNotebook(s, notebook, target_parent) ==
    MoveNotebookAt(s, ResolveUnder(s.repository_path, notebook),
                   ResolveDirectoryPathOut(s, notebook),
                   ResolveUnder(s.repository_path, target_parent),
                   ResolveDirectoryPathOut(s, target_parent))

\* ------------------------------------------------------------------------
\* NoteManager: queries and configuration

\* get_note_colors / get_notebook_colors after _ensure_metadata_loaded:
\* entries of missing paths are dropped
GetColorsLoaded(s, key) ==
    IF MissingKeys(s, s.metadata[key]) # {}
    THEN SaveMetadata([s EXCEPT !.metadata[key] = Drop(@, MissingKeys(s, s.metadata[key]))])
    ELSE s

GetColors(s, key) ==
    IF ~RepositoryOk(s) THEN Result(s, "NotConfigured")
    ELSE IF LoadRaises(s) THEN Result(s, "UnicodeDecodeError")
    ELSE Result(GetColorsLoaded(EnsureMetadataLoaded(s), key), "ok")

\* require_repository, get_all_notes, get_recent_notes, get_all_notebooks:
\* they read the disk and change nothing
Query(s) == IF ~RepositoryOk(s) THEN Result(s, "NotConfigured") ELSE Result(s, "ok")

DEFAULT_THEME == <<"d", "a", "r", "k">>

NoConfig == [present |-> FALSE, repository_path |-> NoPath, theme |-> DEFAULT_THEME]

VALID_THEMES == { <<"d", "a", "r", "k">>, <<"l", "i", "g", "h", "t">> }

\* the theme key is absent from the config file
NoTheme == NoText

\* _normalize_theme with the membership test left out
NormalizeThemeUnchecked(theme) ==
    IF theme = NoTheme THEN DEFAULT_THEME
    ELSE IF Lower(Strip(theme)) = <<>> THEN DEFAULT_THEME
    ELSE Lower(Strip(theme))

NormalizeTheme(theme) ==
    IF theme = NoTheme THEN DEFAULT_THEME
    ELSE IF Lower(Strip(theme)) = <<>> THEN DEFAULT_THEME
    ELSE IF Lower(Strip(theme)) \notin VALID_THEMES THEN DEFAULT_THEME
    ELSE Lower(Strip(theme))

\* _load_repository_path: the theme a new manager takes from the config file
LoadedTheme(config) ==
    IF config.present THEN NormalizeTheme(config.theme) ELSE DEFAULT_THEME

\* set_theme writing a config file that holds the theme alone
ThemeOnlyConfig(config, preferred, normalized) ==
    [present |-> TRUE, repository_path |-> NoPath, theme |-> normalized]

\* set_theme, normalized being the theme it stores: the config file it leaves
ConfigWithTheme(config, preferred, normalized) ==
    IF /\ normalized = preferred
       /\ config.present
       /\ NormalizeTheme(IF config.theme = NoTheme THEN normalized ELSE config.theme)
             = normalized
    THEN config
    ELSE [present |-> TRUE, repository_path |-> config.repository_path,
          theme |-> normalized]

\* the checks of the candidate without the is_dir test
SetRepositoryPathOutExistenceOnly(s, resolved) ==
    IF ~Exists(s, resolved) THEN "FileNotFound" ELSE "ok"

\* set_repository_path: the exception raised by the checks of the candidate
SetRepositoryPathOut(s, resolved) ==
    IF ~Exists(s, resolved) THEN "FileNotFound"
    ELSE IF ~IsDir(s, resolved) THEN "NotADirectory"
    ELSE "ok"

\* set_repository_path keeping the color maps it has in memory as the new
\* repository's
SetRepositoryPathKeepingColors(s, resolved) ==
    IF SetRepositoryPathOut(s, resolved) # "ok"
    THEN Result(s, SetRepositoryPathOut(s, resolved))
    ELSE ResultPath([s EXCEPT !.repository_path = resolved, !.loaded_for = resolved],
                    resolved)

\* set_repository_path from _ensure_metadata_loaded on, reset being the
\* manager with the new path and the maps emptied
SetRepositoryPathLoad(reset, resolved) ==
    IF LoadRaises(reset) THEN Result(reset, "UnicodeDecodeError")
    ELSE ResultPath(EnsureMetadataLoaded(reset), resolved)

SetRepositoryPath(s, resolved) ==
    IF SetRepositoryPathOut(s, resolved) # "ok"
    THEN Result(s, SetRepositoryPathOut(s, resolved))
    ELSE SetRepositoryPathLoad(
             [s EXCEPT !.repository_path = resolved,
                       !.metadata = [notes |-> EmptyMap, notebooks |-> EmptyMap],
                       !.loaded_for = NoPath],
             resolved)

\* the manager before __init__ loads the metadata
Unloaded(disk, config) ==
    [dirs |-> disk.dirs, files |-> disk.files, metaFile |-> disk.metaFile,
     repository_path |-> IF config.present THEN config.repository_path ELSE NoPath,
     metadata |-> [notes |-> EmptyMap, notebooks |-> EmptyMap],
     loaded_for |-> NoPath]

\* NoteManager.__init__ on a disk and a config file
Construct(disk, config) ==
    IF RepositoryOk(Unloaded(disk, config))
    THEN EnsureMetadataLoaded(Unloaded(disk, config))
    ELSE Unloaded(disk, config)

\* ------------------------------------------------------------------------
\* The scenario: names, the initial disk and the arguments callers pass

R == <<"r">>
R2 == <<"r", "2">>
A == <<"A">>
AB == <<"A", "B">>
B == <<"B">>
Z == <<"Z">>
NOTE == <<"n", ".", "m", "d">>
MD == <<".", "m", "d">>
ZMD == <<"Z", ".", "M", "D">>
ZPY == <<"Z", ".", "p", "y">>

RepoRoot == <<R>>
SiblingRoot == <<R2>>

TextA == <<"a">>
TextCRLF == <<"a", CR, LF, "b">>

Color1 == <<"1", "a", "2", "b", "3", "c">>
Color2 == <<"#", "A", "B", "C", "D", "E", "F">>
ColorBad == <<"r", "e", "d">>
ColorPadded == <<" ", "#", "a", "B", "c", "D", "e", "F", " ">>

\* A repository directory /r that is empty, next to a directory /r2 that
\* holds one note
InitialDisk ==
    [dirs |-> {<<>>, RepoRoot, SiblingRoot},
     files |-> [p \in {<<R2, NOTE>>} |-> TextA],
     metaFile |-> [p \in {} |-> [notes |-> EmptyMap, notebooks |-> EmptyMap]]]

InitialConfigs ==
    {NoConfig, [present |-> TRUE, repository_path |-> RepoRoot, theme |-> DEFAULT_THEME]}

NoteArgs == {RelArg(<<NOTE>>), RelArg(<<A, NOTE>>), AbsArg(<<R2, NOTE>>)}

NewNoteNames == {RelArg(<<Z>>), RelArg(<<A, NOTE>>), AbsArg(<<R2, Z>>)}
\* new names that differ by their extension: upper case, unsupported
ExtensionNames == {RelArg(<<ZMD>>), RelArg(<<ZPY>>)}

Contents == {TextA, TextCRLF}

FileNames == {<<NOTE>>, << <<>> >>}

DirectoryArgs == {NoArg, RelArg(<<A>>), RelArg(<<DOTDOT, R2>>)}

NotebookNames == {<<A>>, <<AB>>}

NotebookArgs == {RelArg(<<A>>), RelArg(<<A, AB>>), RelArg(<<Z>>), RelArg(<<DOT>>),
                 AbsArg(<<R2>>)}

NewNotebookNames == {<<Z>>, <<A>>, << <<>> >>}

NoteColorArgs == {NoColor, Color1, ColorBad}

NotebookColorArgs == {NoColor, Color1, Color2, ColorPadded}

RepositoryCandidates == {RepoRoot, SiblingRoot, <<R2, NOTE>>, <<Z>>}

\* ------------------------------------------------------------------------
\* The state machine

State ==
    [dirs |-> dirs, files |-> files, metaFile |-> metaFile,
     repository_path |-> repository_path, metadata |-> metadata,
     loaded_for |-> loaded_for]

Call(op) ==
    [op |-> op, note |-> NoArg, target |-> NoArg, name |-> <<>>, flag |-> FALSE,
     color |-> NoColor, content |-> NoText,
     out |-> "none", path |-> NoPath, text |-> NoText]

\* The call returns or raises: r.s is the state it leaves behind
Commit(r, call) ==
    /\ steps < MaxSteps
    /\ dirs' = r.s.dirs
    /\ files' = r.s.files
    /\ metaFile' = r.s.metaFile
    /\ repository_path' = r.s.repository_path
    /\ metadata' = r.s.metadata
    /\ loaded_for' = r.s.loaded_for
    /\ last' = [call EXCEPT !.out = r.out, !.path = r.path, !.text = r.text]
    /\ steps' = steps + 1

\* the variables hold the manager __init__ has built
Constructed(s) ==
    /\ dirs = s.dirs
    /\ files = s.files
    /\ metaFile = s.metaFile
    /\ repository_path = s.repository_path
    /\ metadata = s.metadata
    /\ loaded_for = s.loaded_for

Init ==
    \E config \in InitialConfigs :
        /\ Constructed(Construct(InitialDisk, config))
        /\ configFile = config
        /\ preferred_theme = LoadedTheme(config)
        /\ last = Call("init")
        /\ steps = 0

set_repository_path ==
    \E candidate \in RepositoryCandidates :
        /\ Commit(SetRepositoryPath(State, candidate),
                  [Call("set_repository_path") EXCEPT !.note = AbsArg(candidate)])
        /\ configFile' = IF last'.out \in {"ok", "UnicodeDecodeError"}
                         THEN [present |-> TRUE, repository_path |-> candidate,
                               theme |-> preferred_theme]
                         ELSE configFile
        /\ UNCHANGED preferred_theme

load_note ==
    \E note \in NoteArgs :
        /\ Commit(LoadNote(State, note), [Call("load_note") EXCEPT !.note = note])
        /\ UNCHANGED <<configFile, preferred_theme>>

save_note ==
    \E note \in NoteArgs, content \in Contents :
        /\ Commit(SaveNote(State, note, content),
                  [Call("save_note") EXCEPT !.note = note, !.content = content])
        /\ UNCHANGED <<configFile, preferred_theme>>

\* the arguments of the create_note calls: every combination of names,
\* directories and overwrite with no color and with a valid one, the invalid
\* color in the root directory, the defaults for the unsupported name
NoteCreations ==
    (FileNames \X DirectoryArgs \X BOOLEAN \X (NoteColorArgs \ {ColorBad}))
        \cup (FileNames \X {NoArg} \X BOOLEAN \X {ColorBad})
        \cup ({<<ZPY>>} \X DirectoryArgs \X {FALSE} \X {NoColor})

create_note ==
    \E args \in NoteCreations :
        /\ Commit(CreateNote(State, args[1], MD, args[2], args[3], args[4]),
                  [Call("create_note") EXCEPT !.name = args[1], !.note = args[2],
                                              !.flag = args[3], !.color = args[4]])
        /\ UNCHANGED <<configFile, preferred_theme>>

\* the arguments of the rename_note calls
NoteRenames ==
    (NoteArgs \X NewNoteNames \X BOOLEAN) \cup (NoteArgs \X ExtensionNames \X {FALSE})

rename_note ==
    \E args \in NoteRenames :
        /\ Commit(RenameNote(State, args[1], args[2], args[3]),
                  [Call("rename_note") EXCEPT !.note = args[1], !.target = args[2],
                                              !.flag = args[3]])
        /\ UNCHANGED <<configFile, preferred_theme>>

delete_note ==
    \E note \in NoteArgs :
        /\ Commit(DeleteNote(State, note), [Call("delete_note") EXCEPT !.note = note])
        /\ UNCHANGED <<configFile, preferred_theme>>

\* the arguments of the create_notebook calls: every combination of plain
\* names, parents and exist_ok with no color and with a valid one, the
\* other colors for new notebooks inside the repository, and the names
\* "..", "." and "" with a color
NotebookCreations ==
    (NotebookNames \X DirectoryArgs \X BOOLEAN \X {NoColor, Color1})
        \cup (NotebookNames \X {NoArg, RelArg(<<A>>)} \X {FALSE}
                 \X (NotebookColorArgs \ {NoColor, Color1}))
        \cup ({<<DOTDOT>>} \X {RelArg(<<A>>)} \X BOOLEAN \X {Color1})
        \cup ({<<DOT>>, << <<>> >>} \X {NoArg} \X {TRUE} \X {Color1})

create_notebook ==
    \E args \in NotebookCreations :
        /\ Commit(CreateNotebook(State, args[1], args[2], args[3], args[4]),
                  [Call("create_notebook") EXCEPT !.name = args[1], !.note = args[2],
                                                  !.flag = args[3], !.color = args[4]])
        /\ UNCHANGED <<configFile, preferred_theme>>

rename_notebook ==
    \E notebook \in NotebookArgs, new_name \in NewNotebookNames :
        /\ Commit(RenameNotebook(State, notebook, new_name),
                  [Call("rename_notebook") EXCEPT !.note = notebook, !.name = new_name])
        /\ UNCHANGED <<configFile, preferred_theme>>

delete_notebook ==
    \E notebook \in NotebookArgs, recursive \in BOOLEAN :
        /\ Commit(DeleteNotebook(State, notebook, recursive),
                  [Call("delete_notebook") EXCEPT !.note = notebook, !.flag = recursive])
        /\ UNCHANGED <<configFile, preferred_theme>>

\* The directories the sidebar tree shows, and one outside the repository
SidebarDirectories ==
    IF repository_path = NoPath THEN {}
    ELSE {d \in dirs : Under(d, repository_path)}

\* the drop handler without its test for a target below the notebook
HandleNotebookMoveRequestedUntested(s, notebook_path, target_path) ==
    IF s.repository_path = NoPath THEN Result(s, "ignored")
    ELSE IF \/ ~IsRelativeTo(notebook_path, s.repository_path)
            \/ ~IsRelativeTo(target_path, s.repository_path)
    THEN Result(s, "rejected")
    ELSE IF notebook_path = s.repository_path THEN Result(s, "rejected")
    ELSE IF target_path = notebook_path \/ target_path = Parent(notebook_path)
    THEN Result(s, "ignored")
    ELSE MoveNotebook(s, AbsArg(notebook_path), AbsArg(target_path))

\* PixelPadMainWindow._handle_notebook_move_requested: the drop handler
\* filters the request, then calls move_notebook
HandleNotebookMoveRequested(s, notebook_path, target_path) ==
    IF s.repository_path = NoPath THEN Result(s, "ignored")
    ELSE IF \/ ~IsRelativeTo(notebook_path, s.repository_path)
            \/ ~IsRelativeTo(target_path, s.repository_path)
    THEN Result(s, "rejected")
    ELSE IF notebook_path = s.repository_path THEN Result(s, "rejected")
    ELSE IF target_path = notebook_path \/ target_path = Parent(notebook_path)
    THEN Result(s, "ignored")
    ELSE IF IsRelativeTo(target_path, notebook_path) THEN Result(s, "rejected")
    ELSE MoveNotebook(s, AbsArg(notebook_path), AbsArg(target_path))

move_notebook ==
    \E notebook \in SidebarDirectories, target_dir \in SidebarDirectories \cup {SiblingRoot} :
        /\ Commit(HandleNotebookMoveRequested(State, notebook, target_dir),
                  [Call("move_notebook") EXCEPT !.note = AbsArg(notebook),
                                                !.target = AbsArg(target_dir)])
        /\ UNCHANGED <<configFile, preferred_theme>>

\* the notebooks and target parents a caller passes to NoteManager.move_notebook
MoveArgs == {RelArg(<<A>>), RelArg(<<A, AB>>), RelArg(<<DOT>>)}

\* NoteManager.move_notebook called without the drop handler's filters
manager_move_notebook ==
    \E notebook \in MoveArgs, target_parent \in MoveArgs :
        /\ Commit(MoveNotebook(State, notebook, target_parent),
                  [Call("NoteManager.move_notebook") EXCEPT !.note = notebook,
                                                            !.target = target_parent])
        /\ UNCHANGED <<configFile, preferred_theme>>

get_note_colors ==
    /\ Commit(GetColors(State, "notes"), Call("get_note_colors"))
    /\ UNCHANGED <<configFile, preferred_theme>>

get_notebook_colors ==
    /\ Commit(GetColors(State, "notebooks"), Call("get_notebook_colors"))
    /\ UNCHANGED <<configFile, preferred_theme>>

QueryNames == {"require_repository", "get_all_notes", "get_recent_notes", "get_all_notebooks"}

query ==
    \E op \in QueryNames :
        /\ Commit(Query(State), Call(op))
        /\ UNCHANGED <<configFile, preferred_theme>>

\* Outside the program: the configured repository directory is deleted
repository_removed ==
    /\ RepositoryOk(State)
    /\ steps < MaxSteps
    /\ dirs' = {d \in dirs : ~Under(d, repository_path)}
    /\ files' = Drop(files, {f \in DOMAIN files : Under(f, repository_path)})
    /\ last' = Call("repository_removed")
    /\ steps' = steps + 1
    /\ UNCHANGED <<metaFile, configFile, repository_path, preferred_theme, metadata, loaded_for>>

\* Outside the program: the repository directory is replaced by a regular file
repository_replaced ==
    /\ RepositoryOk(State)
    /\ steps < MaxSteps
    /\ dirs' = {d \in dirs : ~Under(d, repository_path)}
    /\ files' = Put(Drop(files, {f \in DOMAIN files : Under(f, repository_path)}),
                    repository_path, <<>>)
    /\ last' = Call("repository_replaced")
    /\ steps' = steps + 1
    /\ UNCHANGED <<metaFile, configFile, repository_path, preferred_theme, metadata, loaded_for>>

ThemeArgs ==
    {<<"l", "i", "g", "h", "t">>, <<" ", "D", "A", "R", "K", " ">>,
     <<"b", "l", "u", "e">>, <<>>}

set_theme ==
    \E theme \in ThemeArgs :
        /\ steps < MaxSteps
        /\ preferred_theme' = NormalizeTheme(theme)
        /\ configFile' = ConfigWithTheme(configFile, preferred_theme, NormalizeTheme(theme))
        /\ last' = [Call("set_theme") EXCEPT !.content = theme, !.out = "ok",
                                             !.text = NormalizeTheme(theme)]
        /\ steps' = steps + 1
        /\ UNCHANGED <<dirs, files, metaFile, repository_path, metadata, loaded_for>>

get_theme ==
    /\ steps < MaxSteps
    /\ last' = [Call("get_theme") EXCEPT !.out = "ok", !.text = preferred_theme]
    /\ steps' = steps + 1
    /\ UNCHANGED <<dirs, files, metaFile, configFile, repository_path, preferred_theme,
                   metadata, loaded_for>>

\* The application is closed and started again: a new NoteManager is built
\* on the same config directory
restart ==
    /\ Commit(Result(Construct(State, configFile),
                     IF /\ RepositoryOk(Unloaded(State, configFile))
                        /\ LoadRaises(Unloaded(State, configFile))
                     THEN "UnicodeDecodeError" ELSE "ok"),
              Call("__init__"))
    /\ preferred_theme' = LoadedTheme(configFile)
    /\ UNCHANGED configFile

Next ==
    \/ set_repository_path
    \/ load_note
    \/ save_note
    \/ create_note
    \/ rename_note
    \/ delete_note
    \/ create_notebook
    \/ rename_notebook
    \/ delete_notebook
    \/ move_notebook
    \/ manager_move_notebook
    \/ get_note_colors
    \/ get_notebook_colors
    \/ query
    \/ repository_removed
    \/ repository_replaced

Spec == Init /\ [][Next]_vars

\* Nested notebooks: the create_notebook calls whose name has several
\* components ("A/B") or that work at the third level (AB under A/AB), the
\* deletion of the notebook at the third level, among the other notebook
\* operations
NestedNotebookCreations ==
    ({<<A, B>>} \X {NoArg} \X {FALSE} \X {NoColor, Color1})
        \cup ({<<AB>>} \X {RelArg(<<A, AB>>)} \X {FALSE} \X {NoColor})

create_nested_notebook ==
    \E args \in NestedNotebookCreations :
        /\ Commit(CreateNotebook(State, args[1], args[2], args[3], args[4]),
                  [Call("create_notebook") EXCEPT !.name = args[1], !.note = args[2],
                                                  !.flag = args[3], !.color = args[4]])
        /\ UNCHANGED <<configFile, preferred_theme>>

delete_nested_notebook ==
    \E recursive \in BOOLEAN :
        /\ Commit(DeleteNotebook(State, RelArg(<<A, AB, AB>>), recursive),
                  [Call("delete_notebook") EXCEPT !.note = RelArg(<<A, AB, AB>>),
                                                  !.flag = recursive])
        /\ UNCHANGED <<configFile, preferred_theme>>

NestingNext ==
    \/ create_notebook
    \/ create_nested_notebook
    \/ delete_notebook
    \/ delete_nested_notebook
    \/ rename_notebook
    \/ save_note
    \/ get_notebook_colors

NestingSpec == Init /\ [][NestingNext]_vars

\* The configuration life cycle: config files as a user may have left them,
\* the two settings, restarts, and notebooks whose colors are in the store
ConfigFiles ==
    InitialConfigs \cup
    {[present |-> TRUE, repository_path |-> RepoRoot, theme |-> <<"L", "i", "g", "h", "t">>],
     [present |-> TRUE, repository_path |-> NoPath, theme |-> <<"b", "l", "u", "e">>],
     [present |-> TRUE, repository_path |-> RepoRoot, theme |-> NoTheme]}

ConfigInit ==
    \E config \in ConfigFiles :
        /\ Constructed(Construct(InitialDisk, config))
        /\ configFile = config
        /\ preferred_theme = LoadedTheme(config)
        /\ last = Call("init")
        /\ steps = 0

ConfigNext ==
    \/ set_repository_path
    \/ set_theme
    \/ get_theme
    \/ restart
    \/ create_notebook

ConfigSpec == ConfigInit /\ [][ConfigNext]_vars

\* The life cycle of the color metadata: metadata files as earlier versions,
\* other programs or a crash may have left them, loaded when the repository
\* is selected or the application restarts, while other programs remove
\* notes and notebooks.

\* keys of the color maps, as the metadata files hold them
KeyGone == <<"g", "o", "n", "e", ".", "m", "d">>
KeyEscaping == DOTDOT \o <<SLASH>> \o R2 \o <<SLASH>> \o NOTE
KeyAbsolute == <<SLASH>> \o R2 \o <<SLASH>> \o NOTE

\* entries for paths that exist and for paths that do not
StaleFile ==
    [notes |-> (NOTE :> Color1) @@ (KeyGone :> Color2),
     notebooks |-> (A :> Color1) @@ (Z :> Color1)]

\* keys that lead out of the repository
EscapingFile ==
    [notes |-> (NOTE :> Color1) @@ (KeyEscaping :> Color1) @@ (KeyAbsolute :> Color2),
     notebooks |-> (DOTDOT :> Color1)]

\* entries whose color is not a string or not a hex color, beside valid ones
InvalidEntriesFile ==
    [notes |-> (NOTE :> NotAString) @@ (A :> Color1),
     notebooks |-> (A :> ColorBad)]

OddFile(form) == [form |-> form, notes |-> EmptyMap, notebooks |-> EmptyMap]

NotesArrayFile == [form |-> "notes_array", notes |-> EmptyMap, notebooks |-> (A :> Color1)]

\* entries for existing paths only, in the form the manager writes
CleanFile == [notes |-> (NOTE :> Color2), notebooks |-> EmptyMap]

CanonicalFiles ==
    {StaleFile, EscapingFile, InvalidEntriesFile, NotesArrayFile,
     OddFile("malformed"), OddFile("array"), OddFile("undecodable")}

LegacyFiles == {StaleFile, CleanFile, OddFile("malformed"), OddFile("undecodable")}

\* the repository r holds the note n.md and the notebook A
MetadataDisk ==
    [dirs |-> {<<>>, RepoRoot, SiblingRoot, <<R, A>>},
     files |-> (<<R, NOTE>> :> TextA) @@ (<<R2, NOTE>> :> TextA),
     metaFile |-> [p \in {} |-> [notes |-> EmptyMap, notebooks |-> EmptyMap]]]

WithCanonical(disk, contents) == [disk EXCEPT !.metaFile = Put(@, RepoRoot, contents)]

WithLegacy(disk, contents) ==
    [disk EXCEPT !.dirs = @ \cup {LegacyMetadataDir(RepoRoot)},
                 !.files = Put(@, LegacyMetadataFile(RepoRoot), contents)]

\* a second file in the legacy directory
WithLegacyNeighbour(disk) ==
    [disk EXCEPT !.files = Put(@, Append(LegacyMetadataDir(RepoRoot), NOTE), TextA)]

MetadataDisks ==
    {MetadataDisk}
        \cup {WithCanonical(MetadataDisk, c) : c \in CanonicalFiles}
        \cup {WithLegacy(MetadataDisk, l) : l \in LegacyFiles}
        \cup {WithLegacy(WithCanonical(MetadataDisk, StaleFile), l) : l \in LegacyFiles}
        \cup {WithLegacyNeighbour(WithLegacy(MetadataDisk, CleanFile))}

\* the manager starts on the sibling repository, which has no metadata
MetadataInit ==
    \E disk \in MetadataDisks :
        /\ Constructed(Construct(disk, [present |-> TRUE, repository_path |-> SiblingRoot,
                                        theme |-> DEFAULT_THEME]))
        /\ configFile = [present |-> TRUE, repository_path |-> SiblingRoot,
                         theme |-> DEFAULT_THEME]
        /\ preferred_theme = DEFAULT_THEME
        /\ last = Call("init")
        /\ steps = 0

\* another program removes a note or a notebook of the repository
removed_outside ==
    \E p \in {<<R, NOTE>>, <<R, A>>} :
        /\ steps < MaxSteps
        /\ Exists(State, p)
        /\ dirs' = {d \in dirs : ~Under(d, p)}
        /\ files' = Drop(files, {f \in DOMAIN files : Under(f, p)})
        /\ last' = [Call("removed_outside") EXCEPT !.note = AbsArg(p)]
        /\ steps' = steps + 1
        /\ UNCHANGED <<metaFile, configFile, repository_path, preferred_theme, metadata,
                       loaded_for>>

MetadataNext ==
    \/ set_repository_path
    \/ get_note_colors
    \/ get_notebook_colors
    \/ restart
    \/ removed_outside

MetadataSpec == MetadataInit /\ [][MetadataNext]_vars

\* ------------------------------------------------------------------------
\* Properties

DiskAndColorsUnchanged == UNCHANGED <<dirs, files, metaFile, metadata>>

\* the argument, resolved, is neither the repository root nor below it
OutsideRepository(arg) ==
    /\ arg # NoArg
    /\ ~Under(ResolveUnder(repository_path, arg), repository_path)

SandboxedOps == {"load_note", "save_note", "delete_note", "rename_note", "create_note",
                 "create_notebook", "rename_notebook", "delete_notebook"}

\* C1 as stated: every operation given a path that resolves outside the
\* repository fails with the outside-repository error and changes neither
\* the disk nor the color store.
C1_OutsideAlwaysValueError ==
    [][(/\ last'.op \in SandboxedOps
        /\ RepositoryOk(State)
        /\ (OutsideRepository(last'.note) \/ OutsideRepository(last'.target)))
       => (last'.out = "OutsideRepository" /\ DiskAndColorsUnchanged)]_vars

\* the source of a rename_note is a note the call can rename
RenameSourceUsable(note) ==
    /\ ResolveNotePathOut(State, note) = "ok"
    /\ Exists(State, ResolveUnder(repository_path, note))

\* C1 amended: a path resolving outside the repository makes the call fail
\* and change nothing; the error is the outside-repository error, except for
\* a rename_note destination when the source itself is missing or
\* unsupported, which is reported first.
C1_OutsideRejected ==
    [][(/\ last'.op \in SandboxedOps
        /\ RepositoryOk(State)
        /\ (OutsideRepository(last'.note) \/ OutsideRepository(last'.target)))
       => /\ DiskAndColorsUnchanged
          /\ IF OutsideRepository(last'.note) \/ RenameSourceUsable(last'.note)
             THEN last'.out = "OutsideRepository"
             ELSE last'.out \in {"FileNotFound", "UnsupportedExtension"}]_vars

\* a rename_note of an existing note to a destination outside the
\* repository has just been refused, and the outside note is still there
C1_Witness ==
    /\ last.op = "rename_note"
    /\ last.out = "OutsideRepository"
    /\ Exists(State, ResolveUnder(repository_path, last.note))
    /\ OutsideRepository(last.target)
    /\ <<R2, NOTE>> \in DOMAIN files

\* the argument of the call being made, resolved as the call resolves it
Resolved(arg) == ResolveUnder(repository_path, arg)

\* p is a notebook of the repository other than its root
IsNotebook(p) == p \in dirs /\ p # repository_path /\ Under(p, repository_path)

\* the key k of a color map is the relative path a or lies below it
KeyAtOrUnder(k, a) ==
    \/ k = a
    \/ Len(k) > Len(a) /\ SubSeq(k, 1, Len(a) + 1) = a \o <<SLASH>>

\* where a key at or below a belongs once a has become b
Image(k, a, b) == b \o SubSeq(k, Len(a) + 1, Len(k))

ColorMaps == {"notes", "notebooks"}

\* in both maps, the keys at or below a have moved below b with their colors
\* and none is left at or below a
ColorsFollow(a, b) ==
    \A key \in ColorMaps :
        /\ \A k \in DOMAIN metadata[key] :
              KeyAtOrUnder(k, a) =>
                  /\ Image(k, a, b) \in DOMAIN metadata'[key]
                  /\ metadata'[key][Image(k, a, b)] = metadata[key][k]
        /\ \A k \in DOMAIN metadata'[key] : ~KeyAtOrUnder(k, a)

\* in both maps, a key that is neither at or below a nor the new place of a
\* moved key is still there with its color
OtherColorsKept(a, b) ==
    \A key \in ColorMaps :
        \A k \in DOMAIN metadata[key] :
            (/\ ~KeyAtOrUnder(k, a)
             /\ \A m \in DOMAIN metadata[key] : KeyAtOrUnder(m, a) => Image(m, a, b) # k)
            => (k \in DOMAIN metadata'[key] /\ metadata'[key][k] = metadata[key][k])

\* C2 as stated: a load_note that follows a successful save_note of the same
\* note returns exactly the text that was saved.
C2_RoundTrip ==
    [][(/\ last.op = "save_note" /\ last.out = "ok"
        /\ last'.op = "load_note" /\ last'.out = "ok"
        /\ last'.note = last.note)
       => last'.text = last.content]_vars

\* C3: when rename_notebook(A, new_name) returns B, every key of either
\* color map that was A or below A/ holds the same color under B with the
\* same suffix, no key at or below A remains, and every other key (a sibling
\* "AB" of "A" included) keeps its color.
C3_RenameNotebookMovesColors ==
    [][(last'.op = "rename_notebook" /\ last'.out = "ok")
       => /\ ColorsFollow(RelativePosix(Resolved(last'.note), repository_path),
                          RelativePosix(last'.path, repository_path))
          /\ OtherColorsKept(RelativePosix(Resolved(last'.note), repository_path),
                             RelativePosix(last'.path, repository_path))]_vars

\* notebook A has just been renamed Z while its sibling AB is colored too
C3_Witness ==
    /\ last.op = "rename_notebook"
    /\ last.out = "ok"
    /\ Resolved(last.note) = <<R, A>>
    /\ Z \in DOMAIN metadata.notebooks
    /\ AB \in DOMAIN metadata.notebooks

\* C4: a notebook A moved under another parent is the directory
\* B = target_parent/name(A), which the call returns, and every color key
\* that was A or below A/ is below B with the same suffix and color, none
\* being left at or below A.
C4_MoveNotebookMovesColors ==
    [][(last'.op = "move_notebook" /\ last'.out = "ok")
       => /\ last'.path = Append(last'.target.parts, NameOf(last'.note.parts))
          /\ last'.path \in dirs'
          /\ last'.note.parts \notin dirs'
          /\ ColorsFollow(RelativePosix(last'.note.parts, repository_path),
                          RelativePosix(last'.path, repository_path))]_vars

\* notebook A, holding the colored notebook A/AB, has just been moved into
\* the notebook AB
C4_Witness ==
    /\ last.op = "move_notebook"
    /\ last.out = "ok"
    /\ last.path = <<R, AB, A>>
    /\ <<R, AB, A, AB>> \in dirs
    /\ RelativePosix(<<R, AB, A, AB>>, repository_path) \in DOMAIN metadata.notebooks

\* C5: delete_notebook without recursive on a notebook that holds a file or
\* a notebook fails with the not-empty error, and the disk, the color maps
\* in memory and the persisted color maps are as before.
C5_NonRecursiveDeleteRefused ==
    [][(/\ last'.op = "delete_notebook" /\ ~last'.flag
        /\ RepositoryOk(State)
        /\ IsNotebook(Resolved(last'.note))
        /\ \E q \in dirs \cup DOMAIN files :
              Under(q, Resolved(last'.note)) /\ q # Resolved(last'.note))
       => (last'.out = "NotEmpty" /\ DiskAndColorsUnchanged)]_vars

\* deleting notebook A has just been refused while it holds the colored
\* notebook A/AB, whose color is still in memory and in the metadata file
C5_Witness ==
    /\ last.op = "delete_notebook"
    /\ ~last.flag
    /\ last.out = "NotEmpty"
    /\ Resolved(last.note) = <<R, A>>
    /\ <<R, A, AB>> \in dirs
    /\ RelativePosix(<<R, A, AB>>, repository_path) \in DOMAIN metadata.notebooks
    /\ repository_path \in DOMAIN metaFile
    /\ metaFile[repository_path].notebooks = metadata.notebooks

\* C6 as stated: delete_notebook with recursive on an existing notebook other
\* than the root returns, and afterwards nothing at or below the notebook is
\* on disk and no color key is at or below it.
C6_RecursiveDeleteRemovesAll ==
    [][(/\ last'.op = "delete_notebook" /\ last'.flag
        /\ RepositoryOk(State)
        /\ IsNotebook(Resolved(last'.note)))
       => /\ last'.out = "ok"
          /\ \A q \in dirs' \cup DOMAIN files' : ~Under(q, Resolved(last'.note))
          /\ \A key \in ColorMaps : \A k \in DOMAIN metadata'[key] :
                ~KeyAtOrUnder(k, RelativePosix(Resolved(last'.note), repository_path))]_vars

\* C7: rename_notebook and delete_notebook on the repository root fail with
\* the invalid-operation error whatever the name or the recursive flag, and
\* change neither the disk nor the color store.
C7_RootNotebookProtected ==
    [][(/\ last'.op \in {"rename_notebook", "delete_notebook"}
        /\ RepositoryOk(State)
        /\ Resolved(last'.note) = repository_path)
       => (last'.out = "InvalidOperation" /\ DiskAndColorsUnchanged)]_vars

\* renaming the root to the empty name has just been refused as an invalid
\* operation, in a repository that holds a notebook
C7_Witness ==
    /\ last.op = "rename_notebook"
    /\ last.name = << <<>> >>
    /\ Resolved(last.note) = repository_path
    /\ last.out = "InvalidOperation"
    /\ <<R, A>> \in dirs

\* C8: after rename_note(p, n) without overwrite returns q other than p, p
\* is gone, q holds what p held, and the other notes and their contents are
\* as before.
C8_RenameNoteMovesContent ==
    [][(/\ last'.op = "rename_note" /\ last'.out = "ok" /\ ~last'.flag
        /\ last'.path # Resolved(last'.note))
       => /\ Resolved(last'.note) \notin dirs' \cup DOMAIN files'
          /\ last'.path \in DOMAIN files'
          /\ files'[last'.path] = files[Resolved(last'.note)]
          /\ DOMAIN files' = (DOMAIN files \ {Resolved(last'.note)}) \cup {last'.path}
          /\ \A f \in DOMAIN files \ {Resolved(last'.note)} : files'[f] = files[f]]_vars

\* note n.md, holding "a", has just been renamed Z.md while the repository
\* holds another note, A/n.md, with its own text
C8_Witness ==
    /\ last.op = "rename_note"
    /\ last.out = "ok"
    /\ ~last.flag
    /\ Resolved(last.note) = <<R, NOTE>>
    /\ last.path = <<R, Z \o MD>>
    /\ files[last.path] = TextA
    /\ <<R, A, NOTE>> \in DOMAIN files
    /\ files[<<R, A, NOTE>>] = TextCRLF

\* C9 as stated: a create_note that returns leaves an empty note at the path
\* it returns (created, or truncated when it overwrites), and one refused
\* because the note exists changes neither the disk nor the color store.
C9_CreateNoteLeavesEmptyNote ==
    [][(last'.op = "create_note")
       => /\ last'.out = "ok" =>
                (last'.path \in DOMAIN files' /\ files'[last'.path] = <<>>)
          /\ last'.out = "FileExists" => DiskAndColorsUnchanged]_vars

\* no repository path is set, or the path set is not a directory on disk
RepositoryUnusable == repository_path = NoPath \/ repository_path \notin dirs

RepositoryOps ==
    {"require_repository", "load_note", "save_note", "create_note", "rename_note",
     "delete_note", "create_notebook", "rename_notebook", "delete_notebook",
     "get_all_notes", "get_recent_notes", "get_all_notebooks",
     "get_note_colors", "get_notebook_colors"}

\* C10: while no repository path is set, or the one set is missing or not a
\* directory, every operation that needs the repository fails with
\* NotesRepositoryNotConfiguredError and changes neither the disk nor the
\* color store.
C10_NotConfigured ==
    [][(RepositoryUnusable /\ last'.op \in RepositoryOps)
       => (last'.out = "NotConfigured" /\ DiskAndColorsUnchanged)]_vars

\* a save_note has just been refused because the configured repository path
\* is now a regular file
C10_Witness ==
    /\ last.op = "save_note"
    /\ last.out = "NotConfigured"
    /\ repository_path # NoPath
    /\ repository_path \in DOMAIN files

\* C11: once the manager has no usable repository (none configured, or the
\* configured directory gone from disk), it has none after any step other
\* than a set_repository_path that succeeds, and until then every operation
\* that needs the repository fails with NotesRepositoryNotConfiguredError.
C11_NoRecoveryOnItsOwn ==
    [][(RepositoryUnusable /\ ~(last'.op = "set_repository_path" /\ last'.out = "ok"))
       => /\ RepositoryUnusable'
          /\ last'.op \in RepositoryOps => last'.out = "NotConfigured"]_vars

\* the configured repository /r has disappeared from disk and a
\* set_repository_path to /r2 has just made the manager configured again
C11_Witness ==
    /\ last.op = "set_repository_path"
    /\ last.out = "ok"
    /\ repository_path = SiblingRoot
    /\ configFile.repository_path = SiblingRoot
    /\ RepoRoot \notin dirs
    /\ ~RepositoryUnusable

\* C12: set_repository_path fails with the not-found error for a candidate
\* that does not exist and with the not-a-directory error for one that is
\* not a directory, and leaves the configured path, the config file, the
\* theme and the color maps as they were.
C12_BadCandidateRefused ==
    [][(/\ last'.op = "set_repository_path"
        /\ last'.note.parts \notin dirs)
       => /\ last'.out = IF last'.note.parts \in DOMAIN files
                         THEN "NotADirectory" ELSE "FileNotFound"
          /\ UNCHANGED <<repository_path, configFile, preferred_theme, metadata,
                         loaded_for, metaFile, dirs, files>>]_vars

\* a set_repository_path to a regular file has just been refused while the
\* manager has the theme light, a repository and a notebook color
C12_Witness ==
    /\ last.op = "set_repository_path"
    /\ last.out = "NotADirectory"
    /\ last.note.parts \in DOMAIN files
    /\ preferred_theme = <<"l", "i", "g", "h", "t">>
    /\ repository_path = RepoRoot
    /\ metadata.notebooks # EmptyMap

\* the color maps persisted for repository r, empty when it has no file
Persisted(r) ==
    IF r \in DOMAIN metaFile THEN metaFile[r]
    ELSE [notes |-> EmptyMap, notebooks |-> EmptyMap]

\* C13: after a set_repository_path that succeeds, the color maps in memory
\* are the new repository's own persisted entries (those whose path exists);
\* in every step the metadata file of a repository that is not the configured
\* one stays as it is, and what is written into the configured one's file
\* is the maps in memory. So colors of the repository left behind neither
\* show up in the new one nor are lost for a later switch back.
C13_SwitchIsolatesColors ==
    [][/\ (last'.op = "set_repository_path" /\ last'.out = "ok") =>
            \A key \in ColorMaps :
                /\ \A k \in DOMAIN metadata'[key] :
                      /\ k \in DOMAIN Persisted(repository_path')[key]
                      /\ metadata'[key][k] = Persisted(repository_path')[key][k]
                /\ \A k \in DOMAIN Persisted(repository_path')[key] :
                      KeyPath(repository_path', k) \in dirs' \cup DOMAIN files'
                      => k \in DOMAIN metadata'[key]
       /\ \A r \in DOMAIN metaFile :
            r # repository_path' => (r \in DOMAIN metaFile' /\ metaFile'[r] = metaFile[r])
       /\ \A r \in DOMAIN metaFile' :
            (r \notin DOMAIN metaFile \/ metaFile'[r] # Persisted(r))
            => (r = repository_path' /\ metaFile'[r] = metadata')]_vars

\* the manager has just switched from /r, whose notebook color is persisted,
\* to /r2, and has no color in memory
C13_Witness ==
    /\ last.op = "set_repository_path"
    /\ last.out = "ok"
    /\ repository_path = SiblingRoot
    /\ RepoRoot \in DOMAIN metaFile
    /\ metaFile[RepoRoot].notebooks # EmptyMap
    /\ metadata = [notes |-> EmptyMap, notebooks |-> EmptyMap]

UpperHexDigits == {"0", "1", "2", "3", "4", "5", "6", "7", "8", "9",
                   "A", "B", "C", "D", "E", "F"}

\* c is "#" followed by six uppercase hex digits
StoredForm(c) == Len(c) = 7 /\ c[1] = "#" /\ \A i \in 2..7 : c[i] \in UpperHexDigits

\* every color in the maps in memory and in the metadata files is in stored form
ColorsInStoredForm ==
    /\ \A key \in ColorMaps : \A k \in DOMAIN metadata[key] : StoredForm(metadata[key][k])
    /\ \A r \in DOMAIN metaFile : \A key \in ColorMaps :
          \A k \in DOMAIN metaFile[r][key] : StoredForm(metaFile[r][key][k])

\* the digits of a color argument, a leading "#" removed
Digits(c) == IF c # <<>> /\ c[1] = "#" THEN Tail(c) ELSE c

\* c is six hex digits in any case, with or without a leading "#"
HexForm(c) ==
    Len(Digits(c)) = 6 /\ \A i \in 1..6 : Digits(c)[i] \in UpperHexDigits \cup {"a", "b", "c", "d", "e", "f"}

\* the call being made is a create_note or create_notebook that passes a color
TaggingCall(call) == call.op \in {"create_note", "create_notebook"} /\ call.color # NoColor

\* the color map a tagging call writes to
MapOf(call) == IF call.op = "create_note" THEN "notes" ELSE "notebooks"

\* the outcome the tagging call would have with no color passed
OutWithoutColor(call) ==
    IF call.op = "create_note"
    THEN CreateNote(State, call.name, MD, call.note, call.flag, NoColor).out
    ELSE CreateNotebook(State, call.name, call.note, call.flag, NoColor).out

\* the call has tagged what it created with "#" and the digits of accepted in
\* upper case if the color is acceptable; if it is not, the call has failed,
\* with the invalid-color error when nothing else is wrong with it
TaggingOutcome(call, after, acceptable, accepted) ==
    /\ (call.out = "ok" /\ acceptable) =>
          /\ RelativePosix(call.path, repository_path) \in DOMAIN after[MapOf(call)]
          /\ after[MapOf(call)][RelativePosix(call.path, repository_path)]
                = <<"#">> \o Upper(Digits(accepted))
    /\ ~acceptable =>
          /\ call.out # "ok"
          /\ call.out = "InvalidColor" \/ OutWithoutColor(call) # "ok"

\* C14 as stated: every stored color is "#" and six uppercase hex digits; a
\* color passed as six hex digits, with or without "#", is stored in that
\* form, and any other color string is rejected with the invalid-color error.
C14_AnyOtherColorRejected ==
    /\ []ColorsInStoredForm
    /\ [][TaggingCall(last') =>
            TaggingOutcome(last', metadata', HexForm(last'.color), last'.color)]_vars

\* the color arguments of the calls, each with the blanks around it removed,
\* and whether what is left is six hex digits with or without "#"
ColorArguments == NoteColorArgs \cup NotebookColorArgs

Stripped == [c \in ColorArguments |-> Strip(c)]

StrippedHexForm == [c \in ColorArguments |-> HexForm(Strip(c))]

\* C14 amended: as above, with blanks around the color ignored: a color is
\* accepted when, stripped, it is six hex digits with or without "#".
C14_ColorsNormalized ==
    /\ []ColorsInStoredForm
    /\ [][TaggingCall(last') =>
            TaggingOutcome(last', metadata', StrippedHexForm[last'.color],
                           Stripped[last'.color])]_vars

\* a notebook has just been created with the color " #aBcDeF " and is
\* tagged "#ABCDEF", in memory and in the metadata file
C14_Witness ==
    /\ last.op = "create_notebook"
    /\ last.out = "ok"
    /\ last.color = ColorPadded
    /\ metadata.notebooks[RelativePosix(last.path, repository_path)] = Color2
    /\ metaFile[repository_path].notebooks = metadata.notebooks

\* moving notebook n under the parent t is one of the moves to refuse: n is
\* the repository root, t is n itself or lies below it, or t is the parent n
\* already has
RefusedMove(n, t) ==
    \/ n = repository_path
    \/ Under(t, n)
    \/ t = SubSeq(n, 1, Len(n) - 1)

RequestedExtension(call) ==
    LET asked == IF call.op = "create_note" THEN Suffix(PathName(call.name))
                 ELSE Suffix(NameOf(Resolved(call.target)))
    IN  IF asked # <<>> THEN asked
        ELSE IF call.op = "create_note" THEN MD
        ELSE Suffix(NameOf(Resolved(call.note)))

\* the call gets as far as looking at the extension it asks for
ReachesExtensionTest(call) ==
    /\ RepositoryOk(State)
    /\ IF call.op = "create_note"
       THEN ~OutsideRepository(call.note)
       ELSE /\ RenameSourceUsable(call.note)
            /\ ~OutsideRepository(call.target)
            /\ Resolved(call.target) \notin dirs

\* the step of a manager operation, with supported(ext) saying which
\* extensions count as supported: a path returned by create_note,
\* rename_note or save_note is inside the repository and has a supported
\* extension; no file appears under an unsupported one; a create_note or
\* rename_note asking for an unsupported extension fails with
\* UnsupportedNoteExtensionError; a rename target without extension gets the
\* source's
NotesKeepSupportedExtensions(supported(_)) ==
    /\ (last'.op \in {"create_note", "rename_note", "save_note"} /\ last'.out = "ok") =>
          /\ Under(last'.path, repository_path)
          /\ last'.path \in DOMAIN files'
          /\ supported(Suffix(NameOf(last'.path)))
    /\ (files' # files /\ last'.op \notin {"repository_removed", "repository_replaced"}) =>
          \A f \in DOMAIN files' \ DOMAIN files : supported(Suffix(NameOf(f)))
    /\ (/\ last'.op \in {"create_note", "rename_note"}
        /\ last'.out # "UnsupportedExtension"
        /\ ReachesExtensionTest(last'))
       => Lower(RequestedExtension(last')) \in SUPPORTED_EXTENSIONS
    /\ (/\ last'.op = "rename_note" /\ last'.out = "ok"
        /\ Suffix(NameOf(Resolved(last'.target))) = <<>>)
       => Suffix(NameOf(last'.path)) = Suffix(NameOf(Resolved(last'.note)))

\* C16 as stated: the extension of every returned path and of every note
\* that appears is one of ".txt" and ".md" themselves.
C16_ExtensionInSupportedSet ==
    [][NotesKeepSupportedExtensions(LAMBDA ext : ext \in SUPPORTED_EXTENSIONS)]_vars

\* C16 amended: the extension is one of ".txt" and ".md" when compared
\* without regard to case.
C16_ExtensionSupportedIgnoringCase ==
    [][NotesKeepSupportedExtensions(LAMBDA ext : Lower(ext) \in SUPPORTED_EXTENSIONS)]_vars

\* note n.md has just been renamed Z.MD, the path rename_note returned
C16_Witness ==
    /\ last.op = "rename_note"
    /\ last.out = "ok"
    /\ Resolved(last.note) = <<R, NOTE>>
    /\ last.path = <<R, ZMD>>
    /\ last.path \in DOMAIN files

\* C17: the repository root notebook never has a color: neither the
\* notebook-color map in memory nor the one persisted for the configured
\* repository has an entry under the root's relative key ".".
C17_RootNeverColored ==
    /\ DOT \notin DOMAIN metadata.notebooks
    /\ repository_path # NoPath => DOT \notin DOMAIN Persisted(repository_path).notebooks

LIGHT == <<"l", "i", "g", "h", "t">>

\* the theme a caller means by name: one of the two values when name is it
\* up to case and surrounding whitespace, the default otherwise
ThemeMeant(name) ==
    IF name # NoTheme /\ Lower(Strip(name)) \in {DEFAULT_THEME, LIGHT}
    THEN Lower(Strip(name))
    ELSE DEFAULT_THEME

\* the theme a manager started now would take from the config file
ThemeOnRestart ==
    IF configFile.present THEN ThemeMeant(configFile.theme) ELSE DEFAULT_THEME

\* C18: the theme is "dark" or "light" in every reachable state, whatever
\* the config file loaded held, and get_theme returns it; set_theme stores
\* and returns the value meant by its argument (the argument up to case and
\* surrounding whitespace if that is one of the two, else "dark"), and a
\* restart would load the same.
C18_ThemeAlwaysValid ==
    /\ [](/\ preferred_theme \in {DEFAULT_THEME, LIGHT}
          /\ last.op = "get_theme" => last.text = preferred_theme)
    /\ [][last'.op = "set_theme" =>
             /\ last'.text = ThemeMeant(last'.content)
             /\ preferred_theme' = ThemeMeant(last'.content)
             /\ ThemeOnRestart' = ThemeMeant(last'.content)]_vars

\* set_theme(" DARK ") has just switched a light manager to "dark"
C18_Witness ==
    /\ last.op = "set_theme"
    /\ last.content = <<" ", "D", "A", "R", "K", " ">>
    /\ last.text = DEFAULT_THEME
    /\ preferred_theme = DEFAULT_THEME
    /\ configFile.present
    /\ configFile.theme = DEFAULT_THEME
    /\ configFile.repository_path = SiblingRoot

\* the repository path the config file holds
PathOnFile == IF configFile.present THEN configFile.repository_path ELSE NoPath

\* C19: a restart leaves the manager with the repository path and the theme
\* it had; set_theme changes neither the repository path in memory nor the
\* one in the config file; set_repository_path sets the path in memory and
\* in the file to its target when it succeeds and leaves both alone when it
\* fails, and never changes the theme in memory or the one a restart loads;
\* no other operation changes either setting.
C19_ConfigurationSurvivesRestart ==
    [][/\ last'.op = "__init__" =>
             /\ repository_path' = repository_path
             /\ preferred_theme' = preferred_theme
             /\ configFile' = configFile
       /\ last'.op = "set_theme" =>
             /\ repository_path' = repository_path
             /\ PathOnFile' = PathOnFile
       /\ last'.op = "set_repository_path" =>
             /\ preferred_theme' = preferred_theme
             /\ ThemeOnRestart' = ThemeOnRestart
             /\ IF last'.out = "ok"
                THEN repository_path' = last'.path /\ PathOnFile' = last'.path
                ELSE repository_path' = repository_path /\ configFile' = configFile
       /\ last'.op \notin {"__init__", "set_theme", "set_repository_path"} =>
             UNCHANGED <<repository_path, preferred_theme, configFile>>]_vars

\* a manager restarted after set_theme and set_repository_path reports the
\* sibling repository and the light theme
C19_Witness ==
    /\ last.op = "__init__"
    /\ repository_path = SiblingRoot
    /\ preferred_theme = LIGHT
    /\ PathOnFile = SiblingRoot

\* the color map m without the entry of key k
WithoutKey(m, k) == [j \in DOMAIN m \ {k} |-> m[j]]

\* delete_note is called on a note path of the usable repository
DeleteNoteCalled ==
    /\ last'.op = "delete_note"
    /\ RepositoryOk(State)
    /\ ~OutsideRepository(last'.note)

\* C20: delete_note on an existing note returns, removes that file and the
\* note's color entry and nothing else: the other files keep their content,
\* every directory remains (the note's parents too, empty or not), every
\* other color entry remains in memory and in the persisted store. On a
\* missing note it fails with FileNotFoundError and changes nothing.
C20_DeleteNoteFrame ==
    [][/\ (DeleteNoteCalled /\ Resolved(last'.note) \in DOMAIN files) =>
             /\ last'.out = "ok"
             /\ files' = WithoutKey(files, Resolved(last'.note))
             /\ dirs' = dirs
             /\ metadata'.notes =
                   WithoutKey(metadata.notes,
                              RelativePosix(Resolved(last'.note), repository_path))
             /\ metadata'.notebooks = metadata.notebooks
             /\ \A r \in DOMAIN metaFile :
                   /\ r \in DOMAIN metaFile'
                   /\ metaFile'[r].notebooks = metaFile[r].notebooks
                   /\ metaFile'[r].notes =
                         IF r = repository_path
                         THEN WithoutKey(metaFile[r].notes,
                                         RelativePosix(Resolved(last'.note), repository_path))
                         ELSE metaFile[r].notes
       /\ (DeleteNoteCalled /\ Resolved(last'.note) \notin DOMAIN files \cup dirs) =>
             /\ last'.out = "FileNotFound"
             /\ DiskAndColorsUnchanged]_vars

\* note A/n.md has just been deleted: notebook A is left empty and the
\* color of note n.md is still there
C20_Witness ==
    /\ last.op = "delete_note"
    /\ last.out = "ok"
    /\ Resolved(last.note) = <<R, A, NOTE>>
    /\ <<R, A>> \in dirs
    /\ \A e \in dirs \cup DOMAIN files : Under(e, <<R, A>>) => e = <<R, A>>
    /\ DOMAIN metadata.notes = {NOTE}
    /\ <<R, NOTE>> \in DOMAIN files

\* the directory a create_notebook call names as parent
ParentNamed(call) == IF call.note = NoArg THEN repository_path ELSE Resolved(call.note)

\* C21: a create_notebook that succeeds returns, and leaves a directory at,
\* the location its name designates under the parent: the parent followed
\* by the components of the name ("A/B" under the root is <root>/A/B).
C21_NotebookWhereNamed ==
    [][(last'.op = "create_notebook" /\ last'.out = "ok") =>
          /\ last'.path = ResolveParts(<<>>, ParentNamed(last') \o last'.name)
          /\ last'.path \in dirs']_vars

\* a is a proper ancestor of p strictly below the repository root
AncestorBelowRoot(a, p) ==
    /\ Under(p, a) /\ a # p
    /\ Under(a, repository_path) /\ a # repository_path

\* everything at or below a is on the way from a to p or below p
HoldsOnly(a, p) ==
    \A e \in dirs \cup DOMAIN files : Under(e, a) => (Under(e, p) \/ Under(p, e))

\* C22: when delete_notebook(p) succeeds, p and what was below it are gone;
\* an ancestor of p strictly below the root is removed exactly when p's
\* removal leaves it empty, it and every ancestor between it and p having
\* held nothing but the way to p; the repository root stays, and so does
\* every directory and file beside p and its ancestor chain.
C22_EmptyAncestorsPruned ==
    [][(last'.op = "delete_notebook" /\ last'.out = "ok") =>
          /\ repository_path \in dirs'
          /\ \A e \in dirs' \cup DOMAIN files' : ~Under(e, Resolved(last'.note))
          /\ \A a \in dirs :
                AncestorBelowRoot(a, Resolved(last'.note)) =>
                    (a \notin dirs' <=> HoldsOnly(a, Resolved(last'.note)))
          /\ \A d \in dirs :
                (~Under(d, Resolved(last'.note)) /\ ~Under(Resolved(last'.note), d))
                    => d \in dirs'
          /\ dirs' \subseteq dirs
          /\ \A f \in DOMAIN files :
                ~Under(f, Resolved(last'.note)) => (f \in DOMAIN files' /\ files'[f] = files[f])]_vars

\* the notebook A/AB/AB has just been deleted: A/AB and A, left empty one
\* after the other, are gone and the repository root is there
C22_Witness ==
    /\ last.op = "delete_notebook"
    /\ last.out = "ok"
    /\ Resolved(last.note) = <<R, A, AB, AB>>
    /\ <<R, A>> \notin dirs
    /\ <<R>> \in dirs

\* C23: every key of both color maps is a relative path (it does not start
\* with "/") that names a location inside the repository root, so the
\* paths get_note_colors and get_notebook_colors return for the keys lie
\* inside the repository.
C23_KeysInsideRepository ==
    repository_path # NoPath =>
        \A key \in ColorMaps : \A k \in DOMAIN metadata[key] :
            /\ k # <<>>
            /\ Head(k) # SLASH
            /\ Under(KeyPath(repository_path, k), repository_path)

\* the entries of a section of a metadata file that are valid colors, in
\* the form they are stored in
ValidEntries(section) ==
    [k \in {e \in DOMAIN section : section[e] # NotAString /\ HexForm(Strip(section[e]))}
        |-> <<"#">> \o Upper(Digits(Strip(section[k])))]

\* the color maps a metadata file's contents stand for
MapsOf(contents) ==
    [notes |-> IF FormOf(contents) = "object" THEN ValidEntries(contents.notes)
               ELSE EmptyMap,
     notebooks |-> IF FormOf(contents) \in {"object", "notes_array"}
                   THEN ValidEntries(contents.notebooks) ELSE EmptyMap]

NoMaps == [notes |-> EmptyMap, notebooks |-> EmptyMap]

\* the color maps on file for the repository repo: those of the canonical
\* file, of the legacy file if there is no canonical one, else none
MapsOnFile(repo) ==
    IF repo \in DOMAIN metaFile THEN MapsOf(metaFile[repo])
    ELSE IF LegacyMetadataFile(repo) \in DOMAIN files
    THEN MapsOf(files[LegacyMetadataFile(repo)])
    ELSE NoMaps

\* the step is a call that returned with the repository's metadata loaded
LoadedCall(ops) ==
    /\ last'.op \in ops
    /\ last'.out = "ok"
    /\ repository_path' # NoPath
    /\ loaded_for' = repository_path'

\* the step read the metadata file: set_repository_path and __init__ always
\* do, the other calls when the metadata was not loaded yet
ReadsFile ==
    \/ last'.op \in {"set_repository_path", "__init__"}
    \/ loaded_for # repository_path'

\* the maps the step starts from, and the sections it prunes
MapsBefore == IF ReadsFile THEN MapsOnFile(repository_path') ELSE metadata

PrunedSections ==
    IF ReadsFile THEN ColorMaps
    ELSE IF last'.op = "get_note_colors" THEN {"notes"} ELSE {"notebooks"}

\* the path of key k exists once the step is done
ExistsAfter(k) ==
    KeyPath(repository_path', k) \in dirs' \cup DOMAIN files'

\* the map m without the entries whose path is missing
Pruned(m) == [k \in {e \in DOMAIN m : ExistsAfter(e)} |-> m[k]]

\* C24: after a call that loads the metadata (set_repository_path,
\* __init__) and after each get_note_colors and get_notebook_colors, the
\* sections the call prunes (both on a load, else the one asked for) are
\* what they were, or what the file held, without the entries whose path is
\* missing: no key for a missing path is left, so every path returned
\* exists, and no entry for an existing path is dropped; the other section
\* is as it was; and if an entry was dropped for its missing path, the
\* metadata file holds the maps in memory.
C24_LazyPruning ==
    [][LoadedCall({"set_repository_path", "__init__", "get_note_colors",
                   "get_notebook_colors"}) =>
          /\ \A key \in ColorMaps :
                metadata'[key] = IF key \in PrunedSections THEN Pruned(MapsBefore[key])
                                 ELSE MapsBefore[key]
          /\ (\E key \in PrunedSections : \E k \in DOMAIN MapsBefore[key] : ~ExistsAfter(k))
                => /\ repository_path' \in DOMAIN metaFile'
                   /\ metaFile'[repository_path'] = metadata']_vars

\* get_note_colors has just dropped the color of the note n.md, removed by
\* another program, and written the file; the color of notebook A is kept
C24_Witness ==
    /\ last.op = "get_note_colors"
    /\ last.out = "ok"
    /\ repository_path = RepoRoot
    /\ <<R, NOTE>> \notin DOMAIN files
    /\ metadata.notes = EmptyMap
    /\ A \in DOMAIN metadata.notebooks
    /\ RepoRoot \in DOMAIN metaFile
    /\ metaFile[RepoRoot] = metadata

\* the step is a call that loads the metadata of the repository it ends with
LoadingCall ==
    /\ last'.op \in {"set_repository_path", "__init__", "get_note_colors",
                     "get_notebook_colors"}
    /\ repository_path' # NoPath
    /\ ReadsFile
    /\ \/ last'.out = "UnicodeDecodeError"
       \/ last'.out = "ok" /\ loaded_for' = repository_path'

\* C25: a metadata load for a repository with a legacy file and no
\* canonical file leaves the canonical file with the legacy file's content,
\* the legacy file gone, its directory gone if nothing else is in it, and
\* in memory the valid entries of the legacy file whose path exists; a
\* load for a repository with a canonical file leaves every file and
\* directory of the disk, the legacy file included, as it was, and takes
\* the colors from the canonical file.
C25_LegacyMigration ==
    [][LoadingCall =>
          /\ (/\ repository_path' \notin DOMAIN metaFile
              /\ LegacyMetadataFile(repository_path') \in DOMAIN files)
                => /\ repository_path' \in DOMAIN metaFile'
                   /\ metaFile'[repository_path'] =
                          files[LegacyMetadataFile(repository_path')]
                   /\ LegacyMetadataFile(repository_path') \notin DOMAIN files'
                   /\ (LegacyMetadataDir(repository_path') \in dirs'
                          <=> \E f \in DOMAIN files' :
                                 Under(f, LegacyMetadataDir(repository_path')))
                   /\ \A key \in ColorMaps :
                         metadata'[key] =
                             Pruned(MapsOf(files[LegacyMetadataFile(repository_path')])[key])
          /\ repository_path' \in DOMAIN metaFile
                => /\ files' = files
                   /\ dirs' = dirs
                   /\ \A key \in ColorMaps :
                         metadata'[key] =
                             Pruned(MapsOf(metaFile[repository_path'])[key])]_vars

\* C26: no call raises for what the metadata file contains, and a call
\* that loads the metadata ends with the maps the file stands for (none for
\* malformed JSON or a document that is not an object, none for a section
\* that is not an object, the valid entries of the other sections), less
\* the entries whose path is missing.
C26_LoadNeverRaises ==
    [][/\ last'.out # "UnicodeDecodeError"
       /\ LoadingCall =>
             /\ last'.out = "ok"
             /\ \A key \in ColorMaps :
                   metadata'[key] = Pruned(MapsOnFile(repository_path')[key])]_vars

\* C27: a rename_note call that succeeds with a new name that is a bare
\* file name returns a path in the directory the note was in.
C27_BareNameKeepsNotebook ==
    [][(/\ last'.op = "rename_note"
        /\ last'.out = "ok"
        /\ ~last'.target.abs
        /\ Len(last'.target.parts) = 1)
          => Parent(last'.path) = Parent(Resolved(last'.note))]_vars

\* the color-map key of the path p of the repository
NoteKey(p) == RelativePosix(p, repository_path)

\* C28: after a rename_note with overwrite that replaces an existing note,
\* the destination carries the color the renamed note had before the call,
\* or none if it had none, and the old path carries none.
C28_ReplacedTagDoesNotSurvive ==
    [][(/\ last'.op = "rename_note"
        /\ last'.out = "ok"
        /\ last'.flag
        /\ last'.path \in DOMAIN files
        /\ last'.path # Resolved(last'.note)
        /\ loaded_for = repository_path)
          => /\ NoteKey(Resolved(last'.note)) \notin DOMAIN metadata'.notes
             /\ IF NoteKey(Resolved(last'.note)) \in DOMAIN metadata.notes
                THEN /\ NoteKey(last'.path) \in DOMAIN metadata'.notes
                     /\ metadata'.notes[NoteKey(last'.path)] =
                            metadata.notes[NoteKey(Resolved(last'.note))]
                ELSE NoteKey(last'.path) \notin DOMAIN metadata'.notes]_vars

\* every key of the color maps in use refers to a path that exists
NoStaleKey ==
    (repository_path # NoPath /\ loaded_for = repository_path) =>
        \A key \in ColorMaps : \A k \in DOMAIN metadata[key] :
            KeyPath(repository_path, k) \in dirs \cup DOMAIN files

\* the step is an operation of the manager that returned
ManagerCallReturned ==
    /\ last'.op \notin {"repository_removed", "repository_replaced"}
    /\ last'.out = "ok"

\* the step created, without a color, something at a path where nothing was
CreatedFresh(op) ==
    /\ last'.op = op
    /\ last'.out = "ok"
    /\ last'.color = NoColor
    /\ last'.path \notin dirs \cup DOMAIN files

\* C29: an operation of the manager that returns leaves no color key for a
\* path that does not exist, if there was none before it; and a notebook
\* or a note created without a color at a path where nothing existed, and
\* a notebook without a color renamed onto such a path, has no color
\* afterwards.
C29_NoStaleColorInherited ==
    [][/\ (NoStaleKey /\ ManagerCallReturned) => NoStaleKey'
       /\ CreatedFresh("create_notebook") =>
             NoteKey(last'.path) \notin DOMAIN metadata'.notebooks
       /\ CreatedFresh("create_note") =>
             NoteKey(last'.path) \notin DOMAIN metadata'.notes
       /\ (/\ last'.op = "rename_notebook"
           /\ last'.out = "ok"
           /\ last'.path \notin dirs \cup DOMAIN files
           /\ loaded_for = repository_path
           /\ NoteKey(Resolved(last'.note)) \notin DOMAIN metadata.notebooks)
             => NoteKey(last'.path) \notin DOMAIN metadata'.notebooks]_vars

\* C30: a create_note or create_notebook call that fails leaves the
\* directories, the files, the color maps and the metadata files as they
\* were.
C30_FailedCreateChangesNothing ==
    [][(/\ last'.op \in {"create_note", "create_notebook"}
        /\ last'.out # "ok")
          => /\ dirs' = dirs
             /\ files' = files
             /\ metadata' = metadata
             /\ metaFile' = metaFile]_vars

====
